---- MODULE Spec2Model ----
(***************************************************************************)
(* Model of the translation pipeline: the machine-translation result cache *)
(* (mt_cache.py), the translation memory (translation_memory.py), the      *)
(* entity-placeholder engine (entity_placeholder.py), the glossary         *)
(* (glossary.py), the translator that drives them (translator.py), the     *)
(* TM-enhanced wrapper of a translator (translation_memory.py), and a      *)
(* second process that opens the same cache and translation-memory files.  *)
(*                                                                         *)
(* Text.  A Python str is a sequence of characters; a character is a TLA+  *)
(* string naming one code point.  ASCII characters name themselves.  A     *)
(* Cyrillic letter is named "cy_" and its transliteration for the small    *)
(* letter and "CY_" and its transliteration for the capital: "CY_K" "cy_a" *)
(* "cy_t" "cy_ya" spell U+041A U+0430 U+0442 U+044F; "cy_j" is U+0439 and  *)
(* "cy_y" is U+044B.  "fw_a" is U+FF41 (FULLWIDTH LATIN SMALL LETTER A),   *)
(* whose NFKC form is "a".                                                 *)
(***************************************************************************)
EXTENDS Naturals, Integers, Sequences, FiniteSets, TLC

VARIABLES
    \* MTCache (mt_cache.py)
    cache,        \* self.cache: key -> entry
    cacheFile,    \* the content of self.cache_file on disk
    hits,         \* self.hits
    misses,       \* self.misses
    cacheOp,      \* the MTCache call that was made last, with its arguments
    cacheRet,     \* what that call returned
    lastSet,      \* history: tuple -> translation of the last set() of it on this instance since clear()
    durable,      \* history: tuple -> translation of the last set() of it since clear(), over restarts
    nGets,        \* history: number of get() calls on this instance
    nGetsClear,   \* history: number of get() calls on this instance since the last clear()
    nSets,        \* history: number of set() calls
    \* TranslationMemory (translation_memory.py)
    RAPIDFUZZ_AVAILABLE,  \* whether the import of rapidfuzz succeeded
    memory,       \* self.memory: list of segments
    tmFile,       \* the content of self.tm_file on disk
    tmOp,         \* the TranslationMemory call that was made last, with its arguments
    tmRet,        \* what that call returned
    tmPrev,       \* history: self.memory before that call
    \* EntityPlaceholder (entity_placeholder.py)
    entities,     \* self.entities: the entities in the order of their insertion
    source_forms, \* self.source_forms: surface form -> canonical source
    epOp,         \* the EntityPlaceholder call that was made last, with its arguments
    epText,       \* the text the last mark_entities was given
    epMarked,     \* the marked text the last mark_entities returned
    epMapping,    \* the mapping the last mark_entities returned, in the order of insertion
    epRet,        \* what the last restore_entities returned
    \* Glossary (glossary.py)
    glossary,     \* self.glossary: the terms (source, target) in the order of their insertion
    glossaryFile, \* the content of self.glossary_file on disk
    glOp,         \* the Glossary call that was made last, with its arguments
    glRet,        \* what that call returned
    \* Translator (translator.py)
    use_tm,       \* self.use_tm: self.tm is a TranslationMemory, not None
    use_cache,    \* self.use_cache: self.cache is the MTCache, not None
    use_placeholders,  \* self.use_placeholders: self.entity_placeholder is not None
    trOp,         \* the translate_text call that was made last, with its arguments
    trRet,        \* what that call returned, or Raised
    trLog,        \* history: what that call did (class found in the TM, calls of the backends)
    nCalls,       \* history: number of translate_text calls
    paragraphs,   \* translate_docx: the paragraphs read from the input file
    batch_size,   \* translate_docx: its batch_size argument
    use_glossary, \* translate_docx: its use_glossary argument
    translated_paragraphs,  \* translate_docx: the output paragraphs so far
    docPos,       \* translate_docx: i, the index of the first paragraph of the next batch
    docPc,        \* translate_docx: "idle", "loop" (in the batch loop) or "done"
    docOut,       \* the paragraphs the last write_docx was given, None before it
    docLog,       \* history: for every batch of the loop so far, the batch and what translate_text returned
    \* a second process that opened the same files
    cache2,       \* self.cache of its MTCache
    memory2       \* self.memory of its TranslationMemory

cacheVars == <<cache, cacheFile, hits, misses, cacheOp, cacheRet, lastSet, durable, nGets, nGetsClear, nSets>>

tmVars == <<RAPIDFUZZ_AVAILABLE, memory, tmFile, tmOp, tmRet, tmPrev>>

epVars == <<entities, source_forms, epOp, epText, epMarked, epMapping, epRet>>

glVars == <<glossary, glossaryFile, glOp, glRet>>

trVars == <<use_tm, use_cache, use_placeholders, trOp, trRet, trLog, nCalls,
            paragraphs, batch_size, use_glossary, translated_paragraphs, docPos, docPc, docOut, docLog>>

sharedVars == <<cache2, memory2>>

vars == <<cacheVars, tmVars, epVars, glVars, trVars, sharedVars>>

\* what the calls of one component leave alone: the other components
cacheRest == <<tmVars, epVars, glVars, trVars, sharedVars>>

tmRest == <<cacheVars, epVars, glVars, trVars, sharedVars>>

epRest == <<cacheVars, tmVars, glVars, trVars, sharedVars>>

glRest == <<cacheVars, tmVars, epVars, trVars, sharedVars>>

None == <<"None">>

(***************************************************************************)
(* Bounds of the model.                                                    *)
(***************************************************************************)
MaxGets == 2         \* get() calls on one MTCache instance
MaxSets == 2         \* set() calls in one run
MaxTM == 2           \* segments held by the translation memory

(***************************************************************************)
(* Generic helpers on finite maps (Python dict).                           *)
(***************************************************************************)
EmptyMap == << >>

MapPut(m, k, v) == [x \in (DOMAIN m) \cup {k} |-> IF x = k THEN v ELSE m[x]]

\* n copies of the character c
Rep(c, n) == [i \in 1..n |-> c]

(***************************************************************************)
(* Characters and the str methods the code uses.                           *)
(***************************************************************************)
\* str.isspace / the regular expression class \s
WhiteSpace == {" ", "\n", "\t"}

\* the characters of the model that are neither \w nor \s
Punctuation == {",", "!", ".", ":", "-"}

\* \w: letters, digits and the underscore
IsWordChar(c) == c \notin WhiteSpace /\ c \notin Punctuation

\* the capital letters of the model and their small letters
LowerOf ==
    [c \in {"A", "B", "E", "I", "K", "N", "T", "X", "Y", "CY_K"} |->
        CASE c = "A" -> "a" [] c = "B" -> "b" [] c = "E" -> "e" [] c = "I" -> "i"
          [] c = "K" -> "k" [] c = "N" -> "n" [] c = "T" -> "t" [] c = "X" -> "x"
          [] c = "Y" -> "y" [] c = "CY_K" -> "cy_k"]

UpperCase == DOMAIN LowerOf

\* str.isupper on one character
IsUpper(c) == c \in UpperCase

\* str.lower on one character
LowerChar(c) == IF c \in UpperCase THEN LowerOf[c] ELSE c

\* str.upper on one character
UpperChar(c) ==
    IF \E u \in UpperCase : LowerOf[u] = c
    THEN CHOOSE u \in UpperCase : LowerOf[u] = c
    ELSE c

\* str.lower
Lower(s) == [i \in 1..Len(s) |-> LowerChar(s[i])]

\* unicodedata.normalize('NFKC', c) of one character
NFKCChar(c) == IF c = "fw_a" THEN "a" ELSE c

\* unicodedata.normalize('NFKC', s); every character of the model has a
\* one-character NFKC form
NFKC(s) == [i \in 1..Len(s) |-> NFKCChar(s[i])]

\* The elements of s at the indices in keep, in order.
Keep(s, keep) ==
    [k \in 1..Cardinality(keep) |->
        s[CHOOSE i \in keep : Cardinality({j \in keep : j <= i}) = k]]

\* str.strip
Strip(s) ==
    LET solid == {i \in 1..Len(s) : s[i] \notin WhiteSpace}
    IN  IF solid = {} THEN <<>>
        ELSE SubSeq(s, CHOOSE i \in solid : \A j \in solid : i <= j,
                       CHOOSE i \in solid : \A j \in solid : i >= j)

\* re.sub(r'\s+', ' ', s): every run of white space becomes one space
CollapseWhiteSpace(s) ==
    LET first == {i \in 1..Len(s) : s[i] \in WhiteSpace => (i = 1 \/ s[i - 1] \notin WhiteSpace)}
        spaced == [i \in 1..Len(s) |-> IF s[i] \in WhiteSpace THEN " " ELSE s[i]]
    IN  Keep(spaced, first)

\* re.sub(r'[^\w\s]', '', s)
RemovePunctuation(s) ==
    Keep(s, {i \in 1..Len(s) : IsWordChar(s[i]) \/ s[i] \in WhiteSpace})

(***************************************************************************)
(* MT cache: inputs.                                                       *)
(***************************************************************************)
\* Arguments (text, source_lang, target_lang, engine) given to get/set/has.
CacheArgs ==
    { [text |-> <<"b", ":", "c">>, source_lang |-> <<"s">>, target_lang |-> <<"t">>,           engine |-> <<"e">>],
      [text |-> <<"c">>,           source_lang |-> <<"s">>, target_lang |-> <<"t", ":", "b">>, engine |-> <<"e">>],
      [text |-> <<"c">>,           source_lang |-> <<"s">>, target_lang |-> <<"t">>,           engine |-> <<"e">>],
      [text |-> <<"b", ":", "c">>, source_lang |-> <<"s">>, target_lang |-> <<"t">>,           engine |-> <<"d">>] }

CacheTranslations == { <<"X">>, <<"Y">> }

\* What the write of the file in save() can do: succeed; fail in open()
\* (the file is untouched); fail after open(..., 'w') truncated the file.
SaveOutcomes == {"ok", "open_fails", "write_fails"}

(***************************************************************************)
(* MT cache: pure parts.                                                   *)
(***************************************************************************)
\* hashlib.sha256(b).hexdigest(): a digest, taken to be collision free; the
\* digest of a string is represented by the pair of a tag and that string.
Sha256Hex(s) == <<"sha256", s>>

\* cache_string = f"{engine}:{source_lang}:{target_lang}:{text}"
CacheStringFlat(text, source_lang, target_lang, engine) ==
    engine \o <<":">> \o source_lang \o <<":">> \o target_lang \o <<":">> \o text

_make_key(text, source_lang, target_lang, engine) ==
    Sha256Hex(CacheStringFlat(text, source_lang, target_lang, engine))

KeyOf(a) == _make_key(a.text, a.source_lang, a.target_lang, a.engine)

\* 'source_text': text[:200] + '...' if len(text) > 200 else text
PreviewLen == 200

Preview(text) ==
    IF Len(text) > PreviewLen
    THEN SubSeq(text, 1, PreviewLen) \o <<".", ".", ".">>
    ELSE text

\* The entry set() stores (the timestamp, which nothing reads, is left out).
CacheEntry(text, translation, source_lang, target_lang, engine) ==
    [ source_text |-> Preview(text),
      translation |-> translation,
      source_lang |-> source_lang,
      target_lang |-> target_lang,
      engine      |-> engine ]

\* The file as json.dump writes it: {'cache': ..., 'metadata': {..., 'total_entries': n}}.
JsonFile(c) == [kind |-> "json", cache |-> c, total_entries |-> Cardinality(DOMAIN c)]

NoFile == [kind |-> "absent", cache |-> EmptyMap, total_entries |-> 0]

\* What is left of a file that open(..., 'w') truncated and json.dump did not finish.
BrokenFile == [kind |-> "broken", cache |-> EmptyMap, total_entries |-> 0]

\* MTCache.load: the cache read from the file; {} when the file does not
\* exist or cannot be parsed.
LoadFrom(f) == IF f.kind = "json" THEN f.cache ELSE EmptyMap

\* a save() that adds the entries of the writer to those the file holds
SaveToMerging(f, c, outcome) ==
    CASE outcome = "ok"          -> JsonFile([k \in DOMAIN c \cup DOMAIN f.cache |->
                                                 IF k \in DOMAIN c THEN c[k] ELSE f.cache[k]])
      [] outcome = "open_fails"  -> f
      [] outcome = "write_fails" -> BrokenFile

\* MTCache.save: the file after save() ran with the given outcome of the write.
SaveTo(f, c, outcome) ==
    CASE outcome = "ok"          -> JsonFile(c)
      [] outcome = "open_fails"  -> f
      [] outcome = "write_fails" -> BrokenFile

\* What get() returns on cache c.
GetResult(c, a) == IF KeyOf(a) \in DOMAIN c THEN c[KeyOf(a)].translation ELSE None

(***************************************************************************)
(* MT cache: operations.                                                   *)
(***************************************************************************)
CacheInit ==
    /\ cacheFile = NoFile
    /\ cache = LoadFrom(NoFile)
    /\ hits = 0
    /\ misses = 0
    /\ cacheOp = [name |-> "init", args |-> None]
    /\ cacheRet = None
    /\ lastSet = EmptyMap
    /\ durable = EmptyMap
    /\ nGets = 0
    /\ nGetsClear = 0
    /\ nSets = 0

\* MTCache.get
GetHits(a) == IF KeyOf(a) \in DOMAIN cache THEN hits + 1 ELSE hits

GetMisses(a) == IF KeyOf(a) \in DOMAIN cache THEN misses ELSE misses + 1

get(a) ==
    /\ nGets < MaxGets
    /\ hits' = GetHits(a)
    /\ misses' = GetMisses(a)
    /\ cacheRet' = GetResult(cache, a)
    /\ cacheOp' = [name |-> "get", args |-> a]
    /\ nGets' = nGets + 1
    /\ nGetsClear' = nGetsClear + 1
    /\ UNCHANGED <<cache, cacheFile, lastSet, durable, nSets>>
    /\ UNCHANGED cacheRest

\* a set that stores nothing
SetCacheNothing(a, translation) == cache

\* MTCache.set, with the save() it ends with
SetCache(a, translation) ==
    MapPut(cache, KeyOf(a),
           CacheEntry(a.text, translation, a.source_lang, a.target_lang, a.engine))

set(a, translation, outcome) ==
    /\ nSets < MaxSets
    /\ nSets' = nSets + 1
    /\ cache' = SetCache(a, translation)
    /\ cacheFile' = SaveTo(cacheFile, cache', outcome)
    /\ cacheRet' = None
    /\ cacheOp' = [name |-> "set", args |-> None]
    /\ lastSet' = MapPut(lastSet, a, translation)
    /\ durable' = MapPut(durable, a, translation)
    /\ UNCHANGED <<hits, misses, nGets, nGetsClear>>
    /\ UNCHANGED cacheRest

\* MTCache.has
HasHitsViaGet(a) == GetHits(a)

HasHits(a) == hits

has(a) ==
    /\ cacheRet' = (KeyOf(a) \in DOMAIN cache)
    /\ cacheOp' = [name |-> "has", args |-> None]
    /\ hits' = HasHits(a)
    /\ UNCHANGED <<cache, cacheFile, misses, lastSet, durable, nGets, nGetsClear, nSets>>
    /\ UNCHANGED cacheRest

\* MTCache.clear, with the save() it ends with
ClearHits == 0

clear(outcome) ==
    /\ cache' = EmptyMap
    /\ hits' = ClearHits
    /\ misses' = 0
    /\ cacheFile' = SaveTo(cacheFile, cache', outcome)
    /\ cacheRet' = None
    /\ cacheOp' = [name |-> "clear", args |-> None]
    /\ lastSet' = EmptyMap
    /\ durable' = EmptyMap
    /\ nGetsClear' = 0
    /\ UNCHANGED <<nGets, nSets>>
    /\ UNCHANGED cacheRest

\* MTCache.get_stats; hit_rate is kept as the fraction <<numerator, denominator>>
\* of the percentage that the code formats with one decimal.
HitRate == IF hits + misses > 0 THEN <<hits * 100, hits + misses>> ELSE <<0, 1>>

get_stats ==
    /\ cacheRet' = [ total_entries |-> Cardinality(DOMAIN cache),
                     hits |-> hits, misses |-> misses, hit_rate |-> HitRate ]
    /\ cacheOp' = [name |-> "get_stats", args |-> None]
    /\ UNCHANGED <<cache, cacheFile, hits, misses, lastSet, durable, nGets, nGetsClear, nSets>>
    /\ UNCHANGED cacheRest

\* The process ends (normally or by a crash between two calls) and a new
\* MTCache is constructed on the same file: __init__ with its load().
Restart ==
    /\ cacheOp.name # "restart"
    /\ cache' = LoadFrom(cacheFile)
    /\ hits' = 0
    /\ misses' = 0
    /\ cacheRet' = None
    /\ cacheOp' = [name |-> "restart", args |-> None]
    /\ lastSet' = EmptyMap
    /\ nGets' = 0
    /\ nGetsClear' = 0
    /\ UNCHANGED <<cacheFile, durable, nSets>>
    /\ UNCHANGED cacheRest

CacheNext ==
    \/ \E a \in CacheArgs : get(a)
    \/ \E a \in CacheArgs, translation \in CacheTranslations, outcome \in SaveOutcomes :
          set(a, translation, outcome)
    \/ \E a \in CacheArgs : has(a)
    \/ \E outcome \in SaveOutcomes : clear(outcome)
    \/ get_stats
    \/ Restart

(***************************************************************************)
(* Translation memory: normalisation and similarity.                       *)
(***************************************************************************)
normalize_text(text) == CollapseWhiteSpace(NFKC(Lower(Strip(text))))

normalize_for_comparison(text) == RemovePunctuation(normalize_text(text))

\* Length of the longest common subsequence of a and b, row by row: row[j]
\* is the length for a[1..i] and b[1..j]; a row is computed from the row
\* before it (row[0] is 0).
At(row, j) == IF j = 0 THEN 0 ELSE row[j]

SetMax(S) == CHOOSE x \in S : \A y \in S : x >= y

LcsRow(a, b, i, prev) ==
    SubSeq([j \in 1..Len(b) |->
                SetMax({At(prev, j)} \cup {At(prev, k - 1) + 1 : k \in {k \in 1..j : b[k] = a[i]}})],
           1, Len(b))

RECURSIVE LcsRows(_, _, _, _)
LcsRows(a, b, i, prev) ==
    IF i > Len(a) THEN At(prev, Len(b))
    ELSE LcsRows(a, b, i + 1, LcsRow(a, b, i, prev))

LCS(a, b) == LcsRows(a, b, 1, [j \in 1..Len(b) |-> 0])

\* A similarity is the fraction <<numerator, denominator>> of the float the
\* code computes; 0.0 is <<0, 1>> and 1.0 is <<1, 1>>.
Zero == <<0, 1>>

SimGT(x, y) == x[1] * y[2] > y[1] * x[2]

SimEQ(x, y) == x[1] * y[2] = y[1] * x[2]

\* similarity >= percent / 100
SimGE(x, percent) == x[1] * 100 >= percent * x[2]

\* rapidfuzz.fuzz.ratio(s1, s2) / 100.0: the normalised Indel similarity
\* 1 - (len1 + len2 - 2 * lcs) / (len1 + len2), 1.0 for two empty strings.
fuzz_ratio(s1, s2) ==
    IF Len(s1) + Len(s2) = 0 THEN <<1, 1>>
    ELSE <<2 * LCS(s1, s2), Len(s1) + Len(s2)>>

\* difflib.SequenceMatcher.find_longest_match: the length of the common run
\* of a from i and b from j inside a[i..ahi], b[j..bhi] (bounds inclusive)
RunLength(a, b, i, j, ahi, bhi) ==
    LET room == IF ahi - i < bhi - j THEN ahi - i + 1 ELSE bhi - j + 1
    IN  SetMax({k \in 0..room : \A d \in 0..(k - 1) : a[i + d] = b[j + d]})

\* the block <<i, j, k>> it returns: the longest, of those the one starting
\* earliest in a, and of those the one starting earliest in b
find_longest_match(a, b, alo, ahi, blo, bhi) ==
    LET Blocks == { <<i, j, RunLength(a, b, i, j, ahi, bhi)>> : i \in alo..ahi, j \in blo..bhi }
        Better(x, y) ==
            \/ x[3] > y[3]
            \/ x[3] = y[3] /\ x[1] < y[1]
            \/ x[3] = y[3] /\ x[1] = y[1] /\ x[2] <= y[2]
    IN  IF Blocks = {} THEN <<alo, blo, 0>>
        ELSE CHOOSE x \in Blocks : \A y \in Blocks : Better(x, y)

\* difflib.SequenceMatcher.get_matching_blocks: the total size of the blocks
RECURSIVE MatchingSize(_, _, _, _, _, _)
MatchingSize(a, b, alo, ahi, blo, bhi) ==
    IF alo > ahi \/ blo > bhi THEN 0
    ELSE LET m == find_longest_match(a, b, alo, ahi, blo, bhi)
         IN  IF m[3] = 0 THEN 0
             ELSE m[3]
                  + MatchingSize(a, b, alo, m[1] - 1, blo, m[2] - 1)
                  + MatchingSize(a, b, m[1] + m[3], ahi, m[2] + m[3], bhi)

\* difflib.SequenceMatcher(None, a, b).ratio(): 2.0 * matches / length, 1.0
\* for two empty strings (no character is junk in strings under 200 long)
SequenceMatcher_ratio(a, b) ==
    IF Len(a) + Len(b) = 0 THEN <<1, 1>>
    ELSE <<2 * MatchingSize(a, b, 1, Len(a), 1, Len(b)), Len(a) + Len(b)>>

\* Пороги для разных типов совпадений, in percent
EXACT_THRESHOLD == 98

FUZZY_THRESHOLD == 95

SUGGEST_THRESHOLD == 80

(***************************************************************************)
(* Translation memory: inputs.                                             *)
(***************************************************************************)
Long20 == Rep("a", 19) \o <<"b">>

Long19 == Rep("a", 18) \o <<"b">>

\* source arguments of add()
TMSources ==
    { <<"a", "b">>,
      <<"A", "b", "!">>,
      <<" ", "a", "b">>,
      <<"a", ",", " ", "b">>,
      Long20 }

\* target arguments of add()
TMTargets == { <<>>, <<"X">>, <<"Y", "\n">> }

\* source arguments of search(), find_in_tm() and fuzzy_search()
TMQueries ==
    { <<"a", "b">>,
      <<"a", " ", ",", " ", "b">>,
      <<"fw_a", "\n", " ", "B">>,
      Long19 }

\* an optional argument that the caller left out (Python's default None)
Omitted == -1

\* similarity_threshold arguments of search(), in percent
TMThresholds == { Omitted, 98 }

\* min_similarity arguments of fuzzy_search(), in percent
TMMinSimilarities == { Omitted, 50 }

(***************************************************************************)
(* Translator: inputs (they are compared by the translation memory and     *)
(* marked by the entity placeholders, whose tables below cover them).      *)
(***************************************************************************)
\* text arguments of Translator.translate_text()
TRTexts ==
    { <<"CY_K", "cy_a", "cy_t", "cy_ya">>,
      <<"CY_K", "cy_a", "cy_t", " ", "cy_ya">>,
      Long20,
      Long19 }

\* documents given to Translator.translate_docx(): the texts of the
\* paragraphs of the .docx file
TRDocuments ==
    { << <<"a", "b">> >>,
      << <<"CY_K", "cy_a", "cy_t", "cy_ya">>, <<" ">>, <<"a", "b", " ">> >>,
      << <<"a", "b">>, <<"CY_K", "cy_a", "cy_t", "cy_ya">>, <<"a", " ", ",", " ", "b">> >> }

\* batch_size arguments of translate_docx()
BatchSizes == { 1, 2, 3 }

\* DocxHandler.read_docx: the stripped texts of the paragraphs that are not
\* empty when stripped
RECURSIVE read_docx(_)
read_docx(document) ==
    IF document = <<>> THEN <<>>
    ELSE LET text == Strip(Head(document))
         IN  (IF text # <<>> THEN <<text>> ELSE <<>>) \o read_docx(Tail(document))

\* [p for p in paragraphs if p.strip()]
NonBlank(ps) == LET nonblank(p) == Strip(p) # <<>> IN SelectSeq(ps, nonblank)

\* '\n\n'.join(parts)
RECURSIVE Join(_)
Join(parts) ==
    IF parts = <<>> THEN <<>>
    ELSE IF Len(parts) = 1 THEN parts[1]
    ELSE parts[1] \o <<"\n", "\n">> \o Join(Tail(parts))

\* a slice that runs one paragraph into the next batch
BatchOverlapping(ps, i, size) ==
    SubSeq(ps, i + 1, IF i + size + 1 < Len(ps) THEN i + size + 1 ELSE Len(ps))

\* paragraphs[i:i + batch_size], i counted from 0
Batch(ps, i, size) ==
    SubSeq(ps, i + 1, IF i + size < Len(ps) THEN i + size ELSE Len(ps))

\* range(0, len(paragraphs), batch_size)
BatchStarts(ps, size) == { i \in 0..(Len(ps) - 1) : i % size = 0 }

\* every batch_text translate_docx can hand to translate_text
TRBatchTexts ==
    { Join(Batch(NonBlank(read_docx(d)), i, size)) :
        <<d, size, i>> \in { t \in TRDocuments \X BatchSizes \X (0..2) :
                               t[3] \in BatchStarts(NonBlank(read_docx(t[1])), t[2]) } }

\* every text translate_text is given
TRStrings == TRTexts \cup TRBatchTexts

\* every string the translation memory compares
TMStrings == TMQueries \cup { Strip(x) : x \in TMSources } \cup TRStrings

\* For every pair of these strings: the two strings, and the similarity of
\* their normalize_for_comparison forms as rapidfuzz and as difflib compute
\* it, computed once.
SimilarityTable ==
    { <<x, y, fuzz_ratio(normalize_for_comparison(x), normalize_for_comparison(y)),
              SequenceMatcher_ratio(normalize_for_comparison(x), normalize_for_comparison(y))>> :
        x \in TMStrings, y \in TMStrings }

\* the similarity search() and fuzzy_search() compute for a query and an entry
Similarity(rapidfuzz, source, entry_source) ==
    LET row == CHOOSE t \in SimilarityTable : t[1] = source /\ t[2] = entry_source
    IN  IF rapidfuzz THEN row[3] ELSE row[4]

(***************************************************************************)
(* Translation memory: operations.                                         *)
(***************************************************************************)
\* The file as json.dump writes it: {'segments': [...]}.
TMJsonFile(m) == [kind |-> "json", segments |-> m]

TMNoFile == [kind |-> "absent", segments |-> <<>>]

TMBrokenFile == [kind |-> "broken", segments |-> <<>>]

\* TranslationMemory.save: the file after save() ran with the given outcome
TMSaveTo(f, m, outcome) ==
    CASE outcome = "ok"          -> TMJsonFile(m)
      [] outcome = "open_fails"  -> f
      [] outcome = "write_fails" -> TMBrokenFile

TMInitFixed ==
    /\ memory = <<>>
    /\ tmFile = TMSaveTo(TMNoFile, <<>>, "ok")
    /\ tmOp = [name |-> "init", source |-> None, target |-> None, threshold |-> Omitted]
    /\ tmRet = None
    /\ tmPrev = <<>>

\* TranslationMemory.__init__ on a path that holds no file: load() finds
\* nothing and writes the empty store.
TMInit ==
    /\ RAPIDFUZZ_AVAILABLE \in BOOLEAN
    /\ TMInitFixed

\* the match type of a similarity (lines 151-158)
MatchType(similarity) ==
    IF SimGE(similarity, EXACT_THRESHOLD) THEN "exact"
    ELSE IF SimGE(similarity, FUZZY_THRESHOLD) THEN "fuzzy"
    ELSE IF SimGE(similarity, SUGGEST_THRESHOLD) THEN "suggest"
    ELSE "none"

\* the loop of search(): best is <<best_match, best_similarity, match_type>>
RECURSIVE SearchScan(_, _, _, _, _)
SearchScan(rapidfuzz, source, mem, i, best) ==
    IF i > Len(mem) THEN best
    ELSE LET similarity == Similarity(rapidfuzz, source, mem[i].source)
         IN  IF SimGT(similarity, best[2])
             THEN SearchScan(rapidfuzz, source, mem, i + 1,
                             <<mem[i].target, similarity, MatchType(similarity)>>)
             ELSE SearchScan(rapidfuzz, source, mem, i + 1, best)

\* the truth value Python gives a str or None
Truthy(x) == x # None /\ x # <<>>

\* the threshold the last test of search() compares best_similarity with
ReturnThreshold(similarity_threshold) == SUGGEST_THRESHOLD

\* TranslationMemory.search: None or <<best_match, best_similarity, match_type>>
SearchResult(rapidfuzz, mem, source, similarity_threshold) ==
    IF mem = <<>> THEN None
    ELSE LET threshold == IF similarity_threshold = Omitted
                          THEN FUZZY_THRESHOLD ELSE similarity_threshold
             best == SearchScan(rapidfuzz, source, mem, 1, <<None, Zero, "none">>)
         IN  IF Truthy(best[1]) /\ SimGE(best[2], ReturnThreshold(threshold))
             THEN best
             ELSE None

\* TranslationMemory.find_in_tm
FindResult(rapidfuzz, mem, source) ==
    LET result == SearchResult(rapidfuzz, mem, source, SUGGEST_THRESHOLD)
    IN  IF result # None THEN result ELSE <<None, Zero, "none">>

\* the match type fuzzy_search() gives a similarity it keeps (lines 203-208)
FuzzyMatchType(similarity) ==
    IF SimGE(similarity, EXACT_THRESHOLD) THEN "exact"
    ELSE IF SimGE(similarity, FUZZY_THRESHOLD) THEN "fuzzy"
    ELSE "suggest"

\* the loop of fuzzy_search(): the matches in the order of the store
RECURSIVE FuzzyScan(_, _, _, _, _)
FuzzyScan(rapidfuzz, source, mem, i, min_similarity) ==
    IF i > Len(mem) THEN <<>>
    ELSE LET similarity == Similarity(rapidfuzz, source, mem[i].source)
             rest == FuzzyScan(rapidfuzz, source, mem, i + 1, min_similarity)
         IN  IF SimGE(similarity, min_similarity)
             THEN <<<<mem[i].source, mem[i].target, similarity, FuzzyMatchType(similarity)>>>> \o rest
             ELSE rest

\* matches.sort(key=lambda x: x[2], reverse=True): stable, equal keys keep their order
RECURSIVE InsertBySimilarity(_, _)
InsertBySimilarity(sorted, m) ==
    IF sorted = <<>> THEN <<m>>
    ELSE IF SimGT(m[3], Head(sorted)[3])
         THEN <<m>> \o sorted
         ELSE <<Head(sorted)>> \o InsertBySimilarity(Tail(sorted), m)

RECURSIVE SortBySimilarity(_, _)
SortBySimilarity(matches, sorted) ==
    IF matches = <<>> THEN sorted
    ELSE SortBySimilarity(Tail(matches), InsertBySimilarity(sorted, Head(matches)))

\* TranslationMemory.fuzzy_search
FuzzyResult(rapidfuzz, mem, source, min_similarity) ==
    LET min == IF min_similarity = Omitted THEN SUGGEST_THRESHOLD ELSE min_similarity
    IN  SortBySimilarity(FuzzyScan(rapidfuzz, source, mem, 1, min), <<>>)

\* TranslationMemory.add: the source string add() stores and compares
AddSourceRaw(source) == source

AddSource(source) == Strip(source)

AddEntry(source, target) ==
    [source |-> AddSource(source), target |-> Strip(target), metadata |-> EmptyMap]

\* a duplicate test that compares the whole segment, not its source alone
IsDuplicateSegment(mem, entry) ==
    \E i \in 1..Len(mem) : mem[i].source = entry.source /\ mem[i].target = entry.target

IsDuplicate(mem, entry) == \E i \in 1..Len(mem) : mem[i].source = entry.source

\* an add that puts the new target in the place of the stored one when the
\* source is already stored
addReplacing(source, target, outcome) ==
    LET entry == AddEntry(source, target)
    IN  /\ IsDuplicate(memory, entry) \/ Len(memory) < MaxTM
        /\ memory' = IF IsDuplicate(memory, entry)
                      THEN [i \in 1..Len(memory) |->
                               IF memory[i].source = entry.source THEN entry ELSE memory[i]]
                      ELSE Append(memory, entry)
        /\ tmFile' = TMSaveTo(tmFile, memory', outcome)
        /\ tmOp' = [name |-> "add", source |-> source, target |-> target, threshold |-> Omitted]
        /\ tmRet' = None
        /\ tmPrev' = memory
        /\ UNCHANGED RAPIDFUZZ_AVAILABLE
        /\ UNCHANGED tmRest

add(source, target, outcome) ==
    LET entry == AddEntry(source, target)
    IN  /\ IsDuplicate(memory, entry) \/ Len(memory) < MaxTM
        /\ IF IsDuplicate(memory, entry)
           THEN UNCHANGED <<memory, tmFile>>
           ELSE /\ memory' = Append(memory, entry)
                /\ tmFile' = TMSaveTo(tmFile, memory', outcome)
        /\ tmOp' = [name |-> "add", source |-> source, target |-> target, threshold |-> Omitted]
        /\ tmRet' = None
        /\ tmPrev' = memory
        /\ UNCHANGED RAPIDFUZZ_AVAILABLE
        /\ UNCHANGED tmRest

search(source, similarity_threshold) ==
    /\ tmRet' = SearchResult(RAPIDFUZZ_AVAILABLE, memory, source, similarity_threshold)
    /\ tmOp' = [name |-> "search", source |-> source, target |-> None,
                threshold |-> similarity_threshold]
    /\ tmPrev' = memory
    /\ UNCHANGED <<RAPIDFUZZ_AVAILABLE, memory, tmFile>>
    /\ UNCHANGED tmRest

find_in_tm(source) ==
    /\ tmRet' = FindResult(RAPIDFUZZ_AVAILABLE, memory, source)
    /\ tmOp' = [name |-> "find_in_tm", source |-> source, target |-> None, threshold |-> Omitted]
    /\ tmPrev' = memory
    /\ UNCHANGED <<RAPIDFUZZ_AVAILABLE, memory, tmFile>>
    /\ UNCHANGED tmRest

fuzzy_search(source, min_similarity) ==
    /\ tmRet' = FuzzyResult(RAPIDFUZZ_AVAILABLE, memory, source, min_similarity)
    /\ tmOp' = [name |-> "fuzzy_search", source |-> source, target |-> None,
                threshold |-> min_similarity]
    /\ tmPrev' = memory
    /\ UNCHANGED <<RAPIDFUZZ_AVAILABLE, memory, tmFile>>
    /\ UNCHANGED tmRest

\* TranslationMemory.clear, with the save() it ends with
tm_clear(outcome) ==
    /\ memory' = <<>>
    /\ tmFile' = TMSaveTo(tmFile, memory', outcome)
    /\ tmOp' = [name |-> "clear", source |-> None, target |-> None, threshold |-> Omitted]
    /\ tmRet' = None
    /\ tmPrev' = memory
    /\ UNCHANGED RAPIDFUZZ_AVAILABLE
    /\ UNCHANGED tmRest

\* In SpecTM every write of the file succeeds.
TMOutcomes == {"ok"}

TMNext ==
    \/ \E source \in TMSources, target \in TMTargets, outcome \in TMOutcomes :
          add(source, target, outcome)
    \/ \E source \in TMQueries, similarity_threshold \in TMThresholds :
          search(source, similarity_threshold)
    \/ \E source \in TMQueries : find_in_tm(source)
    \/ \E source \in TMQueries, min_similarity \in TMMinSimilarities :
          fuzzy_search(source, min_similarity)
    \/ \E outcome \in TMOutcomes : tm_clear(outcome)

(***************************************************************************)
(* Entity placeholders: pure parts.                                        *)
(***************************************************************************)
\* str.endswith
EndsWith(s, suffix) ==
    Len(s) >= Len(suffix) /\ SubSeq(s, Len(s) - Len(suffix) + 1, Len(s)) = suffix

\* s[:-n]
DropLast(s, n) == SubSeq(s, 1, Len(s) - n)

\* EntityPlaceholder._add_russian_forms: the inflected forms synthesized for
\* a source, before they are lower-cased
InflectedForms(source) ==
    IF EndsWith(source, <<"cy_yo", "cy_m">>) \/ EndsWith(source, <<"cy_e", "cy_m">>)
    THEN LET base == DropLast(source, 2)
         IN  { base \o <<"cy_yo", "cy_m", "cy_a">>, base \o <<"cy_e", "cy_m", "cy_a">>,
               base \o <<"cy_yo", "cy_m", "cy_u">>, base \o <<"cy_e", "cy_m", "cy_u">>,
               base \o <<"cy_yo", "cy_m", "cy_o", "cy_m">>, base \o <<"cy_e", "cy_m", "cy_o", "cy_m">>,
               base \o <<"cy_yo", "cy_m", "cy_e">>, base \o <<"cy_e", "cy_m", "cy_e">> }
    ELSE IF EndsWith(source, <<"cy_a">>) \/ EndsWith(source, <<"cy_ya">>)
    THEN LET base == DropLast(source, 1)
         IN  IF source[Len(source)] = "cy_ya"
             THEN { base \o <<"cy_i">>, base \o <<"cy_e">>, base \o <<"cy_e", "cy_j">>,
                    base \o <<"cy_yu">> }
             ELSE { base \o <<"cy_y">>, base \o <<"cy_e">>, base \o <<"cy_o", "cy_j">>,
                    base \o <<"cy_u">> }
    ELSE IF EndsWith(source, <<"cy_e", "cy_k">>) \/ EndsWith(source, <<"cy_i", "cy_k">>)
    THEN { source \o <<"cy_a">>, source \o <<"cy_u">>, source \o <<"cy_o", "cy_m">>,
           source \o <<"cy_e">> }
    ELSE {}

\* the keys _add_russian_forms writes: every form lower-cased
RussianForms(source) == { Lower(form) : form \in InflectedForms(source) \cup {source} }

\* EntityPlaceholder._add_russian_forms: self.source_forms afterwards
_add_russian_forms(forms, source) ==
    [form \in (DOMAIN forms) \cup RussianForms(source) |->
        IF form \in RussianForms(source) THEN source ELSE forms[form]]

\* self.entities[source] = {...}: a new key goes to the end, a key that is
\* already there keeps its place
EntitiesPut(ents, entry) ==
    IF \E i \in 1..Len(ents) : ents[i].source = entry.source
    THEN [i \in 1..Len(ents) |-> IF ents[i].source = entry.source THEN entry ELSE ents[i]]
    ELSE Append(ents, entry)

\* EntityPlaceholder.load_glossary: the loop over the entries of the file;
\* state is <<entities, source_forms>>
RECURSIVE LoadEntries(_, _, _)
LoadEntries(glossary_data, i, state) ==
    IF i > Len(glossary_data) THEN state
    ELSE LET entry == glossary_data[i]
         IN  IF entry.source # <<>> /\ entry.target # <<>>
             THEN LoadEntries(glossary_data, i + 1,
                              <<EntitiesPut(state[1], entry),
                                _add_russian_forms(state[2], entry.source)>>)
             ELSE LoadEntries(glossary_data, i + 1, state)

load_glossary(glossary_data) == LoadEntries(glossary_data, 1, <<<<>>, EmptyMap>>)

\* the decimal digits of a natural number
DigitChar == <<"0", "1", "2", "3", "4", "5", "6", "7", "8", "9">>

RECURSIVE Decimal(_)
Decimal(n) ==
    IF n < 10 THEN <<DigitChar[n + 1]>>
    ELSE Decimal(n \div 10) \o <<DigitChar[(n % 10) + 1]>>

\* f"__ENT_{idx}__"
Placeholder(idx) == <<"_", "_", "E", "N", "T", "_">> \o Decimal(idx) \o <<"_", "_">>

\* \b at the gap before position pos of subject (1..Len+1): a word character
\* on exactly one side
WordBoundary(subject, pos) ==
    LET before == pos > 1 /\ IsWordChar(subject[pos - 1])
        after == pos <= Len(subject) /\ IsWordChar(subject[pos])
    IN  before # after

\* whether form, searched without the \b on its two sides, matches subject at
\* position pos
MatchAtNoBoundary(subject, pos, form, case_sensitive) ==
    /\ pos + Len(form) - 1 <= Len(subject)
    /\ LET found == SubSeq(subject, pos, pos + Len(form) - 1)
       IN  IF case_sensitive THEN found = form ELSE Lower(found) = Lower(form)

\* whether \b form \b matches subject at position pos
MatchAt(subject, pos, form, case_sensitive) ==
    /\ pos + Len(form) - 1 <= Len(subject)
    /\ LET found == SubSeq(subject, pos, pos + Len(form) - 1)
       IN  IF case_sensitive THEN found = form ELSE Lower(found) = Lower(form)
    /\ WordBoundary(subject, pos)
    /\ WordBoundary(subject, pos + Len(form))

\* pattern.sub(replace_func, result) from position pos on: the matches are
\* taken left to right without overlap; st is the text built so far, the
\* mapping and idx
RECURSIVE PatternSub(_, _, _, _, _)
PatternSub(subject, pos, form, entity, st) ==
    IF pos > Len(subject) THEN st
    ELSE IF MatchAt(subject, pos, form, entity.case_sensitive)
    THEN PatternSub(subject, pos + Len(form), form, entity,
                    [result |-> st.result \o Placeholder(st.idx),
                     mapping |-> Append(st.mapping,
                                    [placeholder |-> Placeholder(st.idx),
                                     original |-> SubSeq(subject, pos, pos + Len(form) - 1),
                                     source |-> entity.source,
                                     target |-> entity.target]),
                     idx |-> st.idx + 1])
    ELSE PatternSub(subject, pos + 1, form, entity,
                    [st EXCEPT !.result = Append(@, subject[pos])])

\* a pass that numbers its placeholders from 0 again
SubFormRestart(form, entity, st) ==
    PatternSub(st.result, 1, form, entity, [st EXCEPT !.result = <<>>, !.idx = 0])

\* one pass of the loop over forms_to_find
SubForm(form, entity, st) ==
    PatternSub(st.result, 1, form, entity, [st EXCEPT !.result = <<>>])

\* The forms of one length are taken in the order set() iterates them, which
\* the hash seed of the process decides: every order is possible.  states is
\* the set of the states the loop can be in.
RECURSIVE ApplyGroup(_, _, _)
ApplyGroup(group, entity, states) ==
    IF group = {} THEN states
    ELSE UNION { ApplyGroup(group \ {form}, entity,
                            { SubForm(form, entity, st) : st \in states }) :
                 form \in group }

\* sorted(set(forms_to_find), key=len, reverse=True) and the loop over it
RECURSIVE ApplyForms(_, _, _)
ApplyForms(forms, entity, states) ==
    IF forms = {} THEN states
    ELSE LET longest == SetMax({ Len(form) : form \in forms })
             group == { form \in forms : Len(form) = longest }
         IN  ApplyForms(forms \ group, entity, ApplyGroup(group, entity, states))

\* forms_to_find of an entity: its source and every form whose base it is
FormsToFind(forms, source) ==
    {source} \cup { form \in DOMAIN forms : forms[form] = source }

\* sorted(self.entities.keys(), key=len, reverse=True): the sort is stable,
\* sources of one length keep the order of their insertion
SortedEntities(ents) ==
    LET rank(i) == Cardinality({ j \in 1..Len(ents) :
                        \/ Len(ents[j].source) > Len(ents[i].source)
                        \/ Len(ents[j].source) = Len(ents[i].source) /\ j <= i })
    IN  [k \in 1..Len(ents) |-> ents[CHOOSE i \in 1..Len(ents) : rank(i) = k]]

\* the loop of mark_entities over sorted_entities
RECURSIVE MarkLoop(_, _, _, _)
MarkLoop(sorted_entities, i, forms, states) ==
    IF i > Len(sorted_entities) THEN states
    ELSE MarkLoop(sorted_entities, i + 1, forms,
                  ApplyForms(FormsToFind(forms, sorted_entities[i].source),
                             sorted_entities[i], states))

\* EntityPlaceholder.mark_entities: the (result, mapping) pairs it can return
MarkResults(ents, forms, text) ==
    { <<st.result, st.mapping>> :
        st \in MarkLoop(SortedEntities(ents), 1, forms,
                        {[result |-> text, mapping |-> <<>>, idx |-> 0]}) }

\* str.replace(old, new) from position pos on
RECURSIVE Replace(_, _, _, _)
Replace(s, pos, old, new) ==
    IF pos > Len(s) THEN <<>>
    ELSE IF pos + Len(old) - 1 <= Len(s) /\ SubSeq(s, pos, pos + Len(old) - 1) = old
    THEN new \o Replace(s, pos + Len(old), old, new)
    ELSE <<s[pos]>> \o Replace(s, pos + 1, old, new)

\* target.upper(): the whole target upper-cased
UpperWhole(target) == [i \in 1..Len(target) |-> UpperChar(target[i])]

\* target[0].upper() + target[1:] if len(target) > 1 else target.upper()
Capitalized(target) ==
    IF Len(target) > 1 THEN <<UpperChar(target[1])>> \o Tail(target)
    ELSE [i \in 1..Len(target) |-> UpperChar(target[i])]

\* what restore_entities puts in the place of a placeholder, had the surface
\* form been put back
RestoreFormOriginal(info) == info.original

\* what restore_entities puts in the place of a placeholder (lines 166-171)
RestoreForm(info) ==
    IF IsUpper(info.original[1]) THEN Capitalized(info.target) ELSE info.target

\* the loop, had it ended at the first placeholder the text does not hold
RECURSIVE RestoreLoopStrict(_, _, _)
RestoreLoopStrict(result, mapping, i) ==
    IF i > Len(mapping) THEN result
    ELSE IF Replace(result, 1, mapping[i].placeholder, <<>>) = result THEN result
    ELSE RestoreLoopStrict(Replace(result, 1, mapping[i].placeholder, RestoreForm(mapping[i])),
                           mapping, i + 1)

\* EntityPlaceholder.restore_entities: the loop over mapping.items()
RECURSIVE RestoreLoop(_, _, _)
RestoreLoop(result, mapping, i) ==
    IF i > Len(mapping) THEN result
    ELSE RestoreLoop(Replace(result, 1, mapping[i].placeholder, RestoreForm(mapping[i])),
                     mapping, i + 1)

RestoreResult(text, mapping) == RestoreLoop(text, mapping, 1)

(***************************************************************************)
(* Entity placeholders: inputs.                                            *)
(***************************************************************************)
\* the name U+041A U+0430 U+0442 with an ending, capitalised and not
Kat(ending) == <<"CY_K", "cy_a", "cy_t">> \o ending

kat(ending) == <<"cy_k", "cy_a", "cy_t">> \o ending

\* an entry of the glossary file
GlossaryEntry(source, target, case_sensitive) ==
    [source |-> source, target |-> target, case_sensitive |-> case_sensitive]

\* contents of the glossary file the EntityPlaceholder is constructed on; a
\* missing file leaves the same state as the empty list
EPGlossaries ==
    { <<>>,
      <<GlossaryEntry(Kat(<<"cy_ya">>), <<"K", "a", "t", "i", "e">>, TRUE)>>,
      <<GlossaryEntry(Kat(<<"cy_ya">>), <<"k", "a", "t", "i", "e">>, FALSE)>>,
      <<GlossaryEntry(Kat(<<"cy_ya">>), <<"k">>, FALSE)>>,
      <<GlossaryEntry(Kat(<<"cy_ya">>), <<"K", "a", "t", "i", "e">>, TRUE),
        GlossaryEntry(Kat(<<"cy_a">>), <<"K", "a", "t", "a">>, TRUE)>>,
      <<GlossaryEntry(Kat(<<"cy_a">>), <<"K", "a", "t", "a">>, TRUE),
        GlossaryEntry(Kat(<<"cy_ya">>), <<"K", "a", "t", "i", "e">>, TRUE)>>,
      <<GlossaryEntry(Kat(<<"cy_ya">>), <<"K", "a", "t", "i", "e">>, TRUE),
        GlossaryEntry(<<"E", "N", "T">>, <<"E", "n", "t">>, TRUE)>> }

\* text arguments of mark_entities()
EPTexts ==
    { Kat(<<"cy_ya">>),
      kat(<<"cy_yu">>) \o <<" ">> \o Kat(<<"cy_ya">>),
      Kat(<<"cy_yu">>),
      <<"a", "b">>,
      Placeholder(0) \o <<" ">> \o Kat(<<"cy_ya">>),
      Kat(<<"cy_e">>) \o <<",", " ">> \o kat(<<"cy_i">>),
      kat(<<"cy_e">>),
      Kat(<<"cy_a">>),
      Kat(<<"cy_ya">>) \o <<" ", "E", "N", "T">> }

\* what the backends between mark_entities and restore_entities can make of
\* the marked text: leave it, drop the first placeholder, add to it
BackendOutputs(marked) ==
    { marked, Replace(marked, 1, Placeholder(0), <<>>), marked \o <<"!">> }

\* the states load_glossary leaves for these files
EPLoaded == { load_glossary(glossary_data) : glossary_data \in EPGlossaries }

\* For every loaded glossary and text: what mark_entities can return,
\* computed once.
MarkTable ==
    { <<state[1], state[2], text, MarkResults(state[1], state[2], text)>> :
        state \in EPLoaded, text \in EPTexts \cup TRStrings }

MarkOutcomes(ents, forms, text) ==
    (CHOOSE row \in MarkTable : row[1] = ents /\ row[2] = forms /\ row[3] = text)[4]

(***************************************************************************)
(* Entity placeholders: operations.                                        *)
(***************************************************************************)
\* EntityPlaceholder.__init__ on a given glossary file
EPInitOn(glossary_data) ==
    /\ entities = load_glossary(glossary_data)[1]
    /\ source_forms = load_glossary(glossary_data)[2]
    /\ epOp = [name |-> "init", text |-> <<>>]
    /\ epText = <<>>
    /\ epMarked = <<>>
    /\ epMapping = <<>>
    /\ epRet = None

EPInit == \E glossary_data \in EPGlossaries : EPInitOn(glossary_data)

mark_entities(text) ==
    /\ \E outcome \in MarkOutcomes(entities, source_forms, text) :
          /\ epMarked' = outcome[1]
          /\ epMapping' = outcome[2]
    /\ epText' = text
    /\ epOp' = [name |-> "mark_entities", text |-> text]
    /\ epRet' = None
    /\ UNCHANGED <<entities, source_forms>>
    /\ UNCHANGED epRest

restore_entities(text, mapping) ==
    /\ epRet' = RestoreResult(text, mapping)
    /\ epOp' = [name |-> "restore_entities", text |-> text]
    /\ UNCHANGED <<entities, source_forms, epText, epMarked, epMapping>>
    /\ UNCHANGED epRest

EPNext ==
    \/ \E text \in EPTexts : mark_entities(text)
    \/ \E text \in BackendOutputs(epMarked) : restore_entities(text, epMapping)

(***************************************************************************)
(* Glossary (glossary.py).                                                 *)
(***************************************************************************)
MaxGlossary == 2     \* terms held by the glossary

\* source arguments of Glossary.add() and Glossary.get(); none is empty
\* (Translator._load_extended_glossary adds no empty source)
GlossarySources == { <<"a", " ", "b">>, <<"A">>, <<"c">> }

\* target arguments of Glossary.add(); none holds a backslash
GlossaryTargets == { <<"c">>, <<"d">> }

\* text arguments of Glossary.apply()
GlossaryTexts == { <<"a", " ", "b">>, <<"A", " ", "b", " ", "a">>, <<"c", " ", "B">> }

\* the file as json.dump writes it
GlossaryJsonFile(g) == [kind |-> "json", glossary |-> g]

\* self.glossary[key] = target: a new key goes to the end, a key that is
\* already there keeps its place
GlossaryPut(g, key, target) ==
    IF \E i \in 1..Len(g) : g[i].source = key
    THEN [i \in 1..Len(g) |-> IF g[i].source = key THEN [source |-> key, target |-> target] ELSE g[i]]
    ELSE Append(g, [source |-> key, target |-> target])

\* self.glossary.get(key)
GlossaryGet(g, key) ==
    IF \E i \in 1..Len(g) : g[i].source = key
    THEN g[CHOOSE i \in 1..Len(g) : g[i].source = key].target
    ELSE None

\* sorted(self.glossary.items(), key=lambda x: len(x[0]), reverse=True): the
\* sort is stable, sources of one length keep the order of their insertion
SortedItems(g) ==
    LET rank(i) == Cardinality({ j \in 1..Len(g) :
                        \/ Len(g[j].source) > Len(g[i].source)
                        \/ Len(g[j].source) = Len(g[i].source) /\ j <= i })
    IN  [k \in 1..Len(g) |-> g[CHOOSE i \in 1..Len(g) : rank(i) = k]]

\* re.compile(re.escape(source), re.IGNORECASE).sub(target, subject) from
\* position pos on: the matches are taken left to right without overlap
RECURSIVE GlossarySub(_, _, _, _)
GlossarySub(subject, pos, source, target) ==
    IF pos > Len(subject) THEN <<>>
    ELSE IF /\ pos + Len(source) - 1 <= Len(subject)
            /\ Lower(SubSeq(subject, pos, pos + Len(source) - 1)) = Lower(source)
    THEN target \o GlossarySub(subject, pos + Len(source), source, target)
    ELSE <<subject[pos]>> \o GlossarySub(subject, pos + 1, source, target)

\* the loop of Glossary.apply over sorted_items
RECURSIVE ApplyLoop(_, _, _)
ApplyLoop(sorted_items, i, result) ==
    IF i > Len(sorted_items) THEN result
    ELSE ApplyLoop(sorted_items, i + 1,
                   GlossarySub(result, 1, sorted_items[i].source, sorted_items[i].target))

\* Glossary.apply
ApplyResult(g, text) == ApplyLoop(SortedItems(g), 1, text)

\* Glossary.__init__ on a path that holds no file: load() finds nothing and
\* writes the empty glossary
GlossaryInit ==
    /\ glossary = <<>>
    /\ glossaryFile = GlossaryJsonFile(<<>>)
    /\ glOp = [name |-> "init", text |-> <<>>]
    /\ glRet = None

\* Glossary.add, with the save() it ends with
glossary_add(source, target) ==
    /\ (\E i \in 1..Len(glossary) : glossary[i].source = Lower(source)) \/ Len(glossary) < MaxGlossary
    /\ glossary' = GlossaryPut(glossary, Lower(source), target)
    /\ glossaryFile' = GlossaryJsonFile(glossary')
    /\ glOp' = [name |-> "add", text |-> source]
    /\ glRet' = None
    /\ UNCHANGED glRest

\* Glossary.get
glossary_get(source) ==
    /\ glRet' = GlossaryGet(glossary, Lower(source))
    /\ glOp' = [name |-> "get", text |-> source]
    /\ UNCHANGED <<glossary, glossaryFile>>
    /\ UNCHANGED glRest

\* Glossary.apply
apply(text) ==
    /\ glRet' = ApplyResult(glossary, text)
    /\ glOp' = [name |-> "apply", text |-> text]
    /\ UNCHANGED <<glossary, glossaryFile>>
    /\ UNCHANGED glRest

GLNext ==
    \/ \E source \in GlossarySources, target \in GlossaryTargets : glossary_add(source, target)
    \/ \E source \in GlossarySources : glossary_get(source)
    \/ \E text \in GlossaryTexts : apply(text)

(***************************************************************************)
(* Translator (translator.py).                                             *)
(***************************************************************************)
MaxCalls == 2        \* translate_text calls in one run

\* the value that stands for an exception leaving a call
Raised == <<"Raised">>

\* what the MT backend does with the text it is given: raise, return it as
\* it is (the placeholders survive), return another text, of two paragraphs
\* (the placeholders are lost)
MTOutcomes == { "raise", "echo", "other" }

\* self.mt_engine.translate(text, source_lang="ru", target_lang="en-US")
MTTranslate(mt, text) == IF mt = "echo" THEN text ELSE <<"c", "\n", "\n", "d", " ">>

\* what the LLM post-editor does: raise, return the translation it was given,
\* return nothing
LLMOutcomes == { "raise", "echo", "empty" }

\* self.llm_editor.post_edit(original_text, translated_text, glossary): the
\* answer of the model, stripped
LLMEdit(llm, original_text, translated_text) ==
    Strip(IF llm = "echo" THEN translated_text ELSE <<>>)

\* type(self.mt_engine).__name__
engine_name == <<"D", "e", "e", "p", "L", "E", "n", "g", "i", "n", "e">>

\* the arguments translate_text gives to cache.get and cache.set
MTArgs(text_for_mt) ==
    [ text |-> text_for_mt, source_lang |-> <<"r", "u">>,
      target_lang |-> <<"e", "n", "-", "U", "S">>, engine |-> engine_name ]

\* the glossary file the Translator is constructed on
TRGlossaryFile ==
    << GlossaryEntry(Kat(<<"cy_ya">>), <<"K", "a", "t", "i", "e">>, TRUE),
       GlossaryEntry(<<"E", "N", "T">>, <<"E", "n", "t">>, TRUE) >>

\* Translator._load_extended_glossary: Glossary.add for every entry that has
\* a source and a target
RECURSIVE _load_extended_glossary(_, _)
_load_extended_glossary(g, glossary_data) ==
    IF glossary_data = <<>> THEN g
    ELSE LET entry == Head(glossary_data)
         IN  _load_extended_glossary(
                 IF entry.source # <<>> /\ entry.target # <<>>
                 THEN GlossaryPut(g, Lower(entry.source), entry.target)
                 ELSE g,
                 Tail(glossary_data))

\* a translate_text that would return the stored target on an exact match only
ShortCircuitsOnExact(match_type) == match_type = "exact"

\* match_type in ['exact', 'fuzzy']
ShortCircuits(match_type) == match_type \in {"exact", "fuzzy"}

\* what mark_entities can return when the placeholders are in use
MarkChoices(text) ==
    IF use_placeholders THEN MarkOutcomes(entities, source_forms, text) ELSE { <<text, <<>>>> }

\* translated_batch.split('\n\n') from position pos on; part is the part
\* that is being read
RECURSIVE SplitFrom(_, _, _)
SplitFrom(s, pos, part) ==
    IF pos > Len(s) THEN <<part>>
    ELSE IF pos < Len(s) /\ s[pos] = "\n" /\ s[pos + 1] = "\n"
    THEN <<part>> \o SplitFrom(s, pos + 2, <<>>)
    ELSE SplitFrom(s, pos + 1, Append(part, s[pos]))

Split(s) == SplitFrom(s, 1, <<>>)

\* f"[ERROR: Translation failed for batch {batch_num}]"
error_marker(batch_num) ==
    << "[", "E", "R", "R", "O", "R", ":", " ", "T", "r", "a", "n", "s", "l", "a", "t", "i", "o", "n",
       " ", "f", "a", "i", "l", "e", "d", " ", "f", "o", "r", " ", "b", "a", "t", "c", "h", " " >>
    \o Decimal(batch_num) \o <<"]">>

\* Translator.__init__: the components are constructed on paths that hold no
\* cache, no translation memory and no glossary.json, and on the glossary file
TRInitWith(tm, c, ph) ==
    /\ use_tm = tm
    /\ use_cache = c
    /\ use_placeholders = ph
    /\ trOp = [name |-> "init", text |-> <<>>]
    /\ trRet = None
    /\ trLog = [match_type |-> "none", short_circuit |-> FALSE, text_for_mt |-> <<>>,
                mt_calls |-> <<>>, llm_calls |-> <<>>]
    /\ nCalls = 0
    /\ paragraphs = <<>>
    /\ batch_size = 1
    /\ use_glossary = TRUE
    /\ translated_paragraphs = <<>>
    /\ docPos = 0
    /\ docPc = "idle"
    /\ docOut = None
    /\ docLog = <<>>

\* self.cache.get(...) when the cache is in use, None when it is not
CacheLookup(a) == IF use_cache THEN GetResult(cache, a) ELSE None

\* lines 123-125: the MT backend is called when nothing came from the cache
FromMT(cached, mt, text_for_mt) ==
    IF cached = None THEN MTTranslate(mt, text_for_mt) ELSE cached

\* lines 132-133
RestoreIf(entity_mapping, mt_translation) ==
    IF entity_mapping # <<>> THEN RestoreResult(mt_translation, entity_mapping)
    ELSE mt_translation

\* lines 137-138 and 151-152
ApplyIf(ug, translation) == IF ug THEN ApplyResult(glossary, translation) ELSE translation

\* steps 1 to 6, had glossary pass 1 come before the entity restoration
PipelineFromGlossaryFirst(text, ug, text_for_mt, entity_mapping, cached, mt, llm) ==
    [ text_for_mt |-> text_for_mt,
      mt_called |-> cached = None,
      mt_raised |-> cached = None /\ mt = "raise",
      llm_raised |-> ~(cached = None /\ mt = "raise") /\ llm = "raise",
      from_mt |-> FromMT(cached, mt, text_for_mt),
      mt_translation |-> RestoreIf(entity_mapping, ApplyIf(ug, FromMT(cached, mt, text_for_mt))),
      final_translation |->
          IF llm = "raise" THEN Raised
          ELSE ApplyIf(ug, LLMEdit(llm, text,
                       RestoreIf(entity_mapping, ApplyIf(ug, FromMT(cached, mt, text_for_mt))))) ]

\* steps 1 to 6 of translate_text from the marked text and the answer of the
\* cache on: the values they compute
PipelineFrom(text, ug, text_for_mt, entity_mapping, cached, mt, llm) ==
    [ text_for_mt |-> text_for_mt,
      mt_called |-> cached = None,
      mt_raised |-> cached = None /\ mt = "raise",
      llm_raised |-> ~(cached = None /\ mt = "raise") /\ llm = "raise",
      from_mt |-> FromMT(cached, mt, text_for_mt),
      mt_translation |-> ApplyIf(ug, RestoreIf(entity_mapping, FromMT(cached, mt, text_for_mt))),
      final_translation |->
          IF llm = "raise" THEN Raised
          ELSE ApplyIf(ug, LLMEdit(llm, text,
                       ApplyIf(ug, RestoreIf(entity_mapping, FromMT(cached, mt, text_for_mt))))) ]

\* a pipeline that asks the cache for the text as it was given, not as marked
PipelineUnmarkedLookup(text, ug, marked, mt, llm) ==
    PipelineFrom(text, ug, marked[1], marked[2], CacheLookup(MTArgs(text)), mt, llm)

Pipeline(text, ug, marked, mt, llm) ==
    PipelineFrom(text, ug, marked[1], marked[2], CacheLookup(MTArgs(marked[1])), mt, llm)

\* the body of Translator.translate_text; marked is what mark_entities
\* returns, mt and llm are what the backends do when they are called
TranslateText(text, ug, marked, mt, llm) ==
    \E tm_result \in { FindResult(RAPIDFUZZ_AVAILABLE, memory, text) },
       r \in { Pipeline(text, ug, marked, mt, llm) } :
       \E entry \in { AddEntry(text, r.final_translation) } :
          /\ nCalls' = nCalls + 1
          /\ IF use_tm /\ ShortCircuits(tm_result[3])
             THEN /\ trRet' = tm_result[1]
                  /\ trLog' = [match_type |-> tm_result[3], short_circuit |-> TRUE,
                               text_for_mt |-> <<>>, mt_calls |-> <<>>, llm_calls |-> <<>>]
                  /\ UNCHANGED <<cache, cacheFile, hits, misses, memory, tmFile>>
             ELSE /\ hits' = IF use_cache THEN GetHits(MTArgs(r.text_for_mt)) ELSE hits
                  /\ misses' = IF use_cache THEN GetMisses(MTArgs(r.text_for_mt)) ELSE misses
                  /\ cache' = IF use_cache /\ r.mt_called /\ ~r.mt_raised
                              THEN SetCache(MTArgs(r.text_for_mt), r.from_mt) ELSE cache
                  /\ cacheFile' = IF use_cache /\ r.mt_called /\ ~r.mt_raised
                                  THEN SaveTo(cacheFile, cache', "ok") ELSE cacheFile
                  /\ memory' = IF /\ use_tm /\ ~r.mt_raised /\ ~r.llm_raised
                                  /\ ~IsDuplicate(memory, entry)
                               THEN Append(memory, entry) ELSE memory
                  /\ tmFile' = IF memory' # memory THEN TMSaveTo(tmFile, memory', "ok") ELSE tmFile
                  /\ trRet' = IF r.mt_raised \/ r.llm_raised THEN Raised ELSE r.final_translation
                  /\ trLog' = [match_type |-> IF use_tm THEN tm_result[3] ELSE "none",
                               short_circuit |-> FALSE,
                               text_for_mt |-> r.text_for_mt,
                               mt_calls |-> IF r.mt_called THEN <<r.text_for_mt>> ELSE <<>>,
                               llm_calls |-> IF r.mt_raised THEN <<>>
                                             ELSE <<[original_text |-> text,
                                                     translated_text |-> r.mt_translation]>>]
          /\ UNCHANGED <<cacheOp, cacheRet, lastSet, durable, nGets, nGetsClear, nSets>>
          /\ UNCHANGED <<RAPIDFUZZ_AVAILABLE, tmOp, tmRet, tmPrev>>
          /\ UNCHANGED <<epVars, glVars, sharedVars>>
          /\ UNCHANGED <<use_tm, use_cache, use_placeholders>>

\* Translator.translate_text, called on its own
translate_text(text, ug, mt, llm) ==
    /\ docPc # "loop"
    /\ nCalls < MaxCalls
    /\ \E marked \in MarkChoices(text) : TranslateText(text, ug, marked, mt, llm)
    /\ trOp' = [name |-> "translate_text", text |-> text]
    /\ UNCHANGED <<paragraphs, batch_size, use_glossary, translated_paragraphs,
                   docPos, docPc, docOut, docLog>>

\* Translator.translate_docx up to its loop (lines 178-186); a run of the
\* program translates one document
translate_docx_start(document, size, ug) ==
    /\ docPc = "idle"
    /\ paragraphs' = NonBlank(read_docx(document))
    /\ batch_size' = size
    /\ use_glossary' = ug
    /\ translated_paragraphs' = <<>>
    /\ docPos' = 0
    /\ docPc' = "loop"
    /\ docOut' = None
    /\ docLog' = <<>>
    /\ UNCHANGED <<use_tm, use_cache, use_placeholders, trOp, trRet, trLog, nCalls>>
    /\ UNCHANGED <<cacheVars, tmVars, epVars, glVars, sharedVars>>

\* a loop that leaves no entry for a batch that failed
AfterBatchSkipFailed(out, batch, batch_num, translated_batch) ==
    IF translated_batch = Raised
    THEN out
    ELSE IF Len(Split(translated_batch)) = Len(batch)
    THEN out \o Split(translated_batch)
    ELSE Append(out, translated_batch)

\* a loop that keeps the parts of the split whatever their number
AfterBatchAlwaysSplit(out, batch, batch_num, translated_batch) ==
    IF translated_batch = Raised
    THEN Append(out, error_marker(batch_num))
    ELSE out \o Split(translated_batch)

\* what one turn of the loop leaves in translated_paragraphs (lines 195-213)
AfterBatch(out, batch, batch_num, translated_batch) ==
    IF translated_batch = Raised
    THEN Append(out, error_marker(batch_num))
    ELSE IF Len(Split(translated_batch)) = Len(batch)
    THEN out \o Split(translated_batch)
    ELSE Append(out, translated_batch)

\* a loop that stays on the batch whose translate_text raised
translate_docx_batch_retrying(mt, llm) ==
    LET batch == Batch(paragraphs, docPos, batch_size)
        batch_num == (docPos \div batch_size) + 1
    IN  /\ docPc = "loop"
        /\ docPos < Len(paragraphs)
        /\ \E marked \in MarkChoices(Join(batch)) :
              TranslateText(Join(batch), use_glossary, marked, mt, llm)
        /\ trOp' = [name |-> "translate_text", text |-> Join(batch)]
        /\ translated_paragraphs' = AfterBatch(translated_paragraphs, batch, batch_num, trRet')
        /\ docLog' = Append(docLog, [batch |-> batch, batch_num |-> batch_num, ret |-> trRet'])
        /\ docPos' = IF trRet' = Raised THEN docPos ELSE docPos + batch_size
        /\ UNCHANGED <<paragraphs, batch_size, use_glossary, docPc, docOut>>

\* a loop without the try: the exception of translate_text leaves
\* translate_docx
translate_docx_batch_aborting(mt, llm) ==
    LET batch == Batch(paragraphs, docPos, batch_size)
        batch_num == (docPos \div batch_size) + 1
    IN  /\ docPc = "loop"
        /\ docPos < Len(paragraphs)
        /\ \E marked \in MarkChoices(Join(batch)) :
              TranslateText(Join(batch), use_glossary, marked, mt, llm)
        /\ trOp' = [name |-> "translate_text", text |-> Join(batch)]
        /\ translated_paragraphs' =
              IF trRet' = Raised THEN translated_paragraphs
              ELSE AfterBatch(translated_paragraphs, batch, batch_num, trRet')
        /\ docLog' = Append(docLog, [batch |-> batch, batch_num |-> batch_num, ret |-> trRet'])
        /\ docPos' = docPos + batch_size
        /\ docPc' = IF trRet' = Raised THEN "raised" ELSE docPc
        /\ UNCHANGED <<paragraphs, batch_size, use_glossary, docOut>>

\* one turn of the loop of translate_docx (lines 188-215)
translate_docx_batch(mt, llm) ==
    LET batch == Batch(paragraphs, docPos, batch_size)
        batch_num == (docPos \div batch_size) + 1
    IN  /\ docPc = "loop"
        /\ docPos < Len(paragraphs)
        /\ \E marked \in MarkChoices(Join(batch)) :
              TranslateText(Join(batch), use_glossary, marked, mt, llm)
        /\ trOp' = [name |-> "translate_text", text |-> Join(batch)]
        /\ translated_paragraphs' = AfterBatch(translated_paragraphs, batch, batch_num, trRet')
        /\ docLog' = Append(docLog, [batch |-> batch, batch_num |-> batch_num, ret |-> trRet'])
        /\ docPos' = docPos + batch_size
        /\ UNCHANGED <<paragraphs, batch_size, use_glossary, docPc, docOut>>

\* translate_docx after its loop: write_docx (line 219)
translate_docx_finish ==
    /\ docPc = "loop"
    /\ docPos >= Len(paragraphs)
    /\ docOut' = translated_paragraphs
    /\ docPc' = "done"
    /\ UNCHANGED <<use_tm, use_cache, use_placeholders, trOp, trRet, trLog, nCalls,
                   paragraphs, batch_size, use_glossary, translated_paragraphs, docPos, docLog>>
    /\ UNCHANGED <<cacheVars, tmVars, epVars, glVars, sharedVars>>

TRNext ==
    \E text \in TRTexts, ug \in BOOLEAN, mt \in MTOutcomes, llm \in LLMOutcomes :
       translate_text(text, ug, mt, llm)

DocxNext ==
    \/ \E document \in TRDocuments, size \in BatchSizes, ug \in BOOLEAN :
          translate_docx_start(document, size, ug)
    \/ \E mt \in MTOutcomes, llm \in LLMOutcomes : translate_docx_batch(mt, llm)
    \/ translate_docx_finish

(***************************************************************************)
(* TMEnhancedTranslator (translation_memory.py), constructed with use_tm   *)
(* left at its default True on a Translator whose translate_text returns   *)
(* a text or raises.                                                       *)
(***************************************************************************)
\* text arguments of translate_with_tm()
TMETexts == { <<"a", "b">>, <<"a", " ", ",", " ", "b">>, Long19 }

\* the segments add() put in the store before
TMESources == { <<"a", "b">>, Long20 }

TMETargets == { <<>>, <<"X">> }

\* what self.translator.translate_text(text, use_glossary) does: it returns
\* a text or raises
WrappedOutcomes == { Raised, <<"Y", "\n">> }

\* translation, similarity = tm_match (line 294): a tuple unpacked into two
\* names raises ValueError when it does not hold two items
UnpackPair(t) == IF Len(t) = 2 THEN t ELSE Raised

\* TMEnhancedTranslator.translate_with_tm
translate_with_tm(text, translation) ==
    LET tm_match == SearchResult(RAPIDFUZZ_AVAILABLE, memory, text, EXACT_THRESHOLD)
        entry == AddEntry(text, translation)
    IN  /\ nCalls < MaxCalls
        /\ tm_match = None /\ translation # Raised =>
              IsDuplicate(memory, entry) \/ Len(memory) < MaxTM
        /\ tmOp' = [name |-> "translate_with_tm", source |-> text, target |-> None,
                    threshold |-> Omitted]
        /\ tmPrev' = memory
        /\ IF tm_match # None
           THEN /\ tmRet' = IF UnpackPair(tm_match) = Raised THEN Raised
                             ELSE UnpackPair(tm_match)[1]
                /\ UNCHANGED <<memory, tmFile, trOp, trRet, nCalls>>
           ELSE /\ trOp' = [name |-> "translate_text", text |-> text]
                /\ trRet' = translation
                /\ nCalls' = nCalls + 1
                /\ tmRet' = translation
                /\ IF translation = Raised \/ IsDuplicate(memory, entry)
                   THEN UNCHANGED <<memory, tmFile>>
                   ELSE /\ memory' = Append(memory, entry)
                        /\ tmFile' = TMSaveTo(tmFile, memory', "ok")
        /\ UNCHANGED RAPIDFUZZ_AVAILABLE
        /\ UNCHANGED <<use_tm, use_cache, use_placeholders, trLog, paragraphs, batch_size,
                       use_glossary, translated_paragraphs, docPos, docPc, docOut, docLog>>
        /\ UNCHANGED <<cacheVars, epVars, glVars, sharedVars>>

TMENext ==
    \/ \E source \in TMESources, target \in TMETargets : add(source, target, "ok")
    \/ \E text \in TMETexts, translation \in WrappedOutcomes : translate_with_tm(text, translation)

(***************************************************************************)
(* The files of the stores: write failures, reloads and a second process.  *)
(***************************************************************************)
\* arguments of the calls on the stores in SpecShared and SpecPersist
StoreArgs ==
    { [text |-> <<"c">>, source_lang |-> <<"s">>, target_lang |-> <<"t">>, engine |-> <<"e">>],
      [text |-> <<"c">>, source_lang |-> <<"s">>, target_lang |-> <<"t">>, engine |-> <<"d">>] }

StoreTranslations == { <<"X">> }

StoreSources == { <<"a", "b">>, Long20 }

StoreTargets == { <<>>, <<"X">> }

\* arguments of the calls of the one process of SpecPersist
PersistArgs ==
    { [text |-> <<"c">>, source_lang |-> <<"s">>, target_lang |-> <<"t">>, engine |-> <<"e">>] }

PersistSources == { <<"a", "b">> }

\* a load() that writes the empty store over a file it cannot parse
TMLoadRewriting(f, outcome) ==
    IF f.kind = "json" THEN <<f.segments, f>> ELSE <<<<>>, TMSaveTo(f, <<>>, outcome)>>

\* TranslationMemory.load on file f: <<self.memory, the file>> after it; the
\* save() of a file that did not exist has the given outcome
TMLoad(f, outcome) ==
    CASE f.kind = "json"   -> <<f.segments, f>>
      [] f.kind = "broken" -> <<<<>>, f>>
      [] f.kind = "absent" -> <<<<>>, TMSaveTo(f, <<>>, outcome)>>

\* The process ends and a new TranslationMemory is constructed on the same
\* file: __init__ with its load().
tm_restart(outcome) ==
    /\ tmOp.name # "restart"
    /\ memory' = TMLoad(tmFile, outcome)[1]
    /\ tmFile' = TMLoad(tmFile, outcome)[2]
    /\ tmOp' = [name |-> "restart", source |-> None, target |-> None, threshold |-> Omitted]
    /\ tmRet' = None
    /\ tmPrev' = memory
    /\ UNCHANGED RAPIDFUZZ_AVAILABLE
    /\ UNCHANGED tmRest

\* the second process constructs its MTCache on the file of the first
open2 ==
    /\ cache2' = LoadFrom(cacheFile)
    /\ UNCHANGED memory2
    /\ UNCHANGED <<cacheVars, tmVars, epVars, glVars, trVars>>

\* MTCache.set in the second process, with the save() it ends with
set2(a, translation, outcome) ==
    /\ nSets < MaxSets
    /\ nSets' = nSets + 1
    /\ cache2' = MapPut(cache2, KeyOf(a),
                        CacheEntry(a.text, translation, a.source_lang, a.target_lang, a.engine))
    /\ cacheFile' = SaveTo(cacheFile, cache2', outcome)
    /\ UNCHANGED memory2
    /\ UNCHANGED <<cache, hits, misses, cacheOp, cacheRet, lastSet, durable, nGets, nGetsClear>>
    /\ UNCHANGED <<tmVars, epVars, glVars, trVars>>

\* the second process constructs its TranslationMemory on the file of the first
tm_open2(outcome) ==
    /\ memory2' = TMLoad(tmFile, outcome)[1]
    /\ tmFile' = TMLoad(tmFile, outcome)[2]
    /\ UNCHANGED cache2
    /\ UNCHANGED <<RAPIDFUZZ_AVAILABLE, memory, tmOp, tmRet, tmPrev>>
    /\ UNCHANGED <<cacheVars, epVars, glVars, trVars>>

\* TranslationMemory.add in the second process
add2(source, target, outcome) ==
    LET entry == AddEntry(source, target)
    IN  /\ IsDuplicate(memory2, entry) \/ Len(memory2) < MaxTM
        /\ IF IsDuplicate(memory2, entry)
           THEN UNCHANGED <<memory2, tmFile>>
           ELSE /\ memory2' = Append(memory2, entry)
                /\ tmFile' = TMSaveTo(tmFile, memory2', outcome)
        /\ UNCHANGED cache2
        /\ UNCHANGED <<RAPIDFUZZ_AVAILABLE, memory, tmOp, tmRet, tmPrev>>
        /\ UNCHANGED <<cacheVars, epVars, glVars, trVars>>

\* two processes on the same files; every write succeeds
SharedNext ==
    \/ \E a \in StoreArgs, translation \in StoreTranslations : set(a, translation, "ok")
    \/ Restart
    \/ open2
    \/ \E a \in StoreArgs, translation \in StoreTranslations : set2(a, translation, "ok")
    \/ \E source \in StoreSources : add(source, <<"X">>, "ok")
    \/ tm_restart("ok")
    \/ tm_open2("ok")
    \/ \E source \in StoreSources : add2(source, <<"X">>, "ok")

\* one process whose writes can fail
PersistNext ==
    \/ \E a \in PersistArgs : get(a)
    \/ \E a \in PersistArgs, translation \in StoreTranslations, outcome \in SaveOutcomes :
          set(a, translation, outcome)
    \/ Restart
    \/ \E source \in PersistSources, target \in StoreTargets, outcome \in SaveOutcomes :
          add(source, target, outcome)
    \/ \E source \in PersistSources : find_in_tm(source)
    \/ \E outcome \in SaveOutcomes : tm_restart(outcome)

(***************************************************************************)
(* Specifications: one per component, the other components at rest.        *)
(***************************************************************************)
CacheIdle == CacheInit

TMIdle == RAPIDFUZZ_AVAILABLE = TRUE /\ TMInitFixed

EPIdle == EPInitOn(<<GlossaryEntry(Kat(<<"cy_ya">>), <<"K", "a", "t", "i", "e">>, TRUE)>>)

GLIdle == GlossaryInit

TRIdle == TRInitWith(FALSE, TRUE, TRUE)

\* no second process
SharedIdle == cache2 = EmptyMap /\ memory2 = <<>>

InitCache == CacheInit /\ TMIdle /\ EPIdle /\ GLIdle /\ TRIdle /\ SharedIdle

InitTM == TMInit /\ CacheIdle /\ EPIdle /\ GLIdle /\ TRIdle /\ SharedIdle

InitEP == EPInit /\ CacheIdle /\ TMIdle /\ GLIdle /\ TRIdle /\ SharedIdle

InitGL == GlossaryInit /\ CacheIdle /\ TMIdle /\ EPIdle /\ TRIdle /\ SharedIdle

SpecCache == InitCache /\ [][CacheNext]_vars

SpecTM == InitTM /\ [][TMNext]_vars

SpecEP == InitEP /\ [][EPNext]_vars

SpecGL == InitGL /\ [][GLNext]_vars

\* Translator.__init__ with every choice of use_tm, use_cache and
\* use_placeholders; _load_extended_glossary has filled the glossary
InitTR ==
    /\ \E tm \in BOOLEAN, c \in BOOLEAN, ph \in BOOLEAN : TRInitWith(tm, c, ph)
    /\ CacheIdle
    /\ TMIdle
    /\ EPInitOn(TRGlossaryFile)
    /\ glossary = _load_extended_glossary(<<>>, TRGlossaryFile)
    /\ glossaryFile = GlossaryJsonFile(glossary)
    /\ glOp = [name |-> "init", text |-> <<>>]
    /\ glRet = None
    /\ SharedIdle

SpecTR == InitTR /\ [][TRNext]_vars

SpecTME == InitTM /\ [][TMENext]_vars

SpecDocx == InitTR /\ [][DocxNext]_vars

\* translate_docx runs on: its loop is a for over a finite range and
\* write_docx follows it
SpecDocxFair == InitTR /\ [][DocxNext]_vars /\ WF_vars(DocxNext)

\* both stores constructed on paths that hold no file
InitStores == CacheInit /\ TMIdle /\ EPIdle /\ GLIdle /\ TRIdle /\ SharedIdle

SpecShared == InitStores /\ [][SharedNext]_vars

SpecPersist == InitStores /\ [][PersistNext]_vars

(***************************************************************************)
(* Claims about the MT cache.                                              *)
(***************************************************************************)

\* C1: after set(text, tr, src, tgt, engine) has returned, a get with the same
\* four arguments returns tr, the translation most recently set for that
\* tuple on this instance, until clear() is called.
C1_RoundTrip ==
    (cacheOp.name = "get" /\ cacheOp.args \in DOMAIN lastSet)
        => cacheRet = lastSet[cacheOp.args]

\* C2: starting from an empty cache, after one set(text, tr, src, tgt, engine),
\* a get with a tuple that differs from it in at least one component returns
\* absent: two distinct tuples never get the same key.
C2_KeyDistinct ==
    (/\ cacheOp.name = "get"
     /\ nSets = 1
     /\ DOMAIN lastSet # {}
     /\ cacheOp.args \notin DOMAIN lastSet)
        => cacheRet = None

\* C3: whenever set(text, tr, src, tgt, engine) has returned, the cache file
\* holds that entry: a new MTCache constructed on the file at any later point
\* (before a clear) answers get(text, src, tgt, engine) with tr.
C3_Durability ==
    \A a \in DOMAIN durable : GetResult(LoadFrom(cacheFile), a) = durable[a]

\* C4 as stated: hits + misses always equals the number of get calls made on
\* the instance (no operation but get changes the counters).
C4_LifetimeCounters == hits + misses = nGets

\* C4 as amended: get adds one to hits when the key is present and one to
\* misses when it is not; set, has and get_stats leave both counters alone;
\* clear resets both to zero; so hits + misses equals the number of get calls
\* made on the instance since it was constructed or last cleared.
C4_CountersSinceClear ==
    [][ /\ cacheOp'.name = "get" =>
              IF KeyOf(cacheOp'.args) \in DOMAIN cache
              THEN hits' = hits + 1 /\ misses' = misses
              ELSE hits' = hits /\ misses' = misses + 1
        /\ cacheOp'.name \in {"set", "has", "get_stats"} =>
              hits' = hits /\ misses' = misses
        /\ cacheOp'.name = "clear" => hits' = 0 /\ misses' = 0
        /\ hits' + misses' = nGetsClear' ]_vars

\* C4 witness: a get, then a clear, then a get on one instance.
C4_Witness == nGets = 2 /\ nGetsClear = 1 /\ hits + misses = 1 /\ cacheOp.name = "get"

(***************************************************************************)
(* Claims about the translation memory.                                    *)
(***************************************************************************)
\* the similarity of the query of the last operation to the i-th segment
SimTo(i) == Similarity(RAPIDFUZZ_AVAILABLE, tmOp.source, memory[i].source)

\* the positions of the segments no other segment is more similar than
BestSegments == { i \in 1..Len(memory) : \A j \in 1..Len(memory) : ~SimGT(SimTo(j), SimTo(i)) }

\* the first of them in insertion order
BestSegment == CHOOSE i \in BestSegments : \A j \in BestSegments : i <= j

\* the class the three thresholds give a similarity of at least 0.80
TierOf(similarity) ==
    IF SimGE(similarity, 98) THEN "exact"
    ELSE IF SimGE(similarity, 95) THEN "fuzzy"
    ELSE "suggest"

\* C5: search(source, threshold) returns the best match only if its similarity
\* is at least the threshold the caller supplied (0.95 when omitted); when the
\* best similarity is below that threshold it returns absent.
C5_SearchThreshold ==
    (tmOp.name = "search" /\ memory # <<>>) =>
        LET threshold == IF tmOp.threshold = Omitted THEN 95 ELSE tmOp.threshold
        IN  /\ tmRet # None => SimGE(tmRet[2], threshold)
            /\ ~SimGE(SimTo(BestSegment), threshold) => tmRet = None

\* C6: find_in_tm returns the best segment's target, its similarity m and the
\* class of m when m >= 0.80, and (absent, 0.0, none) when m < 0.80 or the
\* store is empty; it returns class none only when no segment reaches 0.80.
C6_FindTiering ==
    tmOp.name = "find_in_tm" =>
        IF memory # <<>> /\ SimGE(SimTo(BestSegment), 80)
        THEN /\ tmRet[1] = memory[BestSegment].target
             /\ SimEQ(tmRet[2], SimTo(BestSegment))
             /\ tmRet[3] = TierOf(SimTo(BestSegment))
        ELSE tmRet = <<None, Zero, "none">>

\* C7 as stated: add(source, target) appends a segment if and only if no
\* existing segment has a source identical to the raw source argument.
C7_RawDuplicateRule ==
    tmOp.name = "add" =>
        (Len(memory) = Len(tmPrev) + 1
            <=> ~\E i \in 1..Len(tmPrev) : tmPrev[i].source = tmOp.source)

\* C7 as amended: add(source, target) appends the segment (source and target
\* with leading and trailing whitespace removed) if and only if no existing
\* segment has a source identical to the stripped source argument; otherwise
\* the store is left as it was, so a second add of the same source changes
\* nothing and two sources whose stripped forms differ are both stored.
C7_StrippedDuplicateRule ==
    tmOp.name = "add" =>
        IF \E i \in 1..Len(tmPrev) : tmPrev[i].source = Strip(tmOp.source)
        THEN memory = tmPrev
        ELSE memory = Append(tmPrev, [source |-> Strip(tmOp.source),
                                      target |-> Strip(tmOp.target),
                                      metadata |-> EmptyMap])

\* C7 witness: an add whose raw source is in no segment, but whose stripped
\* source is, has left the store as it was.
C7_Witness ==
    /\ tmOp.name = "add"
    /\ tmOp.source # Strip(tmOp.source)
    /\ \E i \in 1..Len(tmPrev) : tmPrev[i].source = Strip(tmOp.source)
    /\ memory = tmPrev

\* a string with its punctuation removed, its whitespace runs collapsed and
\* trimmed, and its letters lower-cased
Canonical(s) == Lower(Strip(CollapseWhiteSpace(RemovePunctuation(s))))

\* C8: a query that differs from a stored segment's source only in letter
\* case, in punctuation characters and in the amount of whitespace is
\* classified by find_in_tm as fuzzy or higher.
C8_NormalisedMatch ==
    (/\ tmOp.name = "find_in_tm"
     /\ \E i \in 1..Len(memory) : Canonical(memory[i].source) = Canonical(tmOp.source))
        => tmRet[3] \in {"fuzzy", "exact"}

\* C9: fuzzy_search(source, minSimilarity) returns exactly the segments whose
\* similarity to the query is at least minSimilarity (0.80 when omitted), in
\* order of non-increasing similarity, each with the class the three-tier
\* thresholds give its similarity (suggest only within [0.80, 0.95)).
C9_FuzzySearch ==
    tmOp.name = "fuzzy_search" =>
        LET min == IF tmOp.threshold = Omitted THEN 80 ELSE tmOp.threshold
            kept == { i \in 1..Len(memory) : SimGE(SimTo(i), min) }
        IN  /\ Len(tmRet) = Cardinality(kept)
            /\ { <<tmRet[k][1], tmRet[k][2]>> : k \in 1..Len(tmRet) }
                   = { <<memory[i].source, memory[i].target>> : i \in kept }
            /\ \A k \in 1..Len(tmRet) :
                  \A i \in kept : memory[i].source = tmRet[k][1] => SimEQ(tmRet[k][3], SimTo(i))
            /\ \A k \in 1..Len(tmRet) - 1 : ~SimGT(tmRet[k + 1][3], tmRet[k][3])
            /\ \A k \in 1..Len(tmRet) :
                  /\ SimGE(tmRet[k][3], 80)
                  /\ tmRet[k][4] = TierOf(tmRet[k][3])

(***************************************************************************)
(* Claims about the entity placeholders.                                   *)
(***************************************************************************)
\* whether s holds the string part at position pos
HoldsAt(s, pos, part) ==
    pos + Len(part) - 1 <= Len(s) /\ SubSeq(s, pos, pos + Len(part) - 1) = part

\* whether a text holds a placeholder token that marking it could issue
HasToken(text) ==
    \E pos \in 1..Len(text), idx \in 0..Len(text) : HoldsAt(text, pos, Placeholder(idx))

\* the target form of a mapping entry, capitalised as the surface form was
TargetForm(info) ==
    IF info.original[1] \in UpperCase
    THEN [n \in 1..Len(info.target) |->
            IF n = 1 THEN UpperChar(info.target[n]) ELSE info.target[n]]
    ELSE info.target

\* Whether restored (from k on) is the marked text (from i on) with every
\* token of the mapping replaced by its target form, and, when withText,
\* whether text (from j on) is the marked text with every token replaced by
\* its surface form.
RECURSIVE Substituted(_, _, _, _, _, _, _, _)
Substituted(marked, i, text, j, restored, k, mapping, withText) ==
    IF i > Len(marked)
    THEN k > Len(restored) /\ (withText => j > Len(text))
    ELSE LET tokens == { m \in 1..Len(mapping) : HoldsAt(marked, i, mapping[m].placeholder) }
         IN  IF tokens # {}
             THEN LET info == mapping[CHOOSE m \in tokens : TRUE]
                  IN  /\ HoldsAt(restored, k, TargetForm(info))
                      /\ withText => HoldsAt(text, j, info.original)
                      /\ Substituted(marked, i + Len(info.placeholder),
                                     text, j + Len(info.original),
                                     restored, k + Len(TargetForm(info)),
                                     mapping, withText)
             ELSE /\ k <= Len(restored) /\ restored[k] = marked[i]
                  /\ withText => (j <= Len(text) /\ text[j] = marked[i])
                  /\ Substituted(marked, i + 1, text, j + 1, restored, k + 1,
                                 mapping, withText)

\* C10 as stated: restore_entities applied to the marked text and mapping that
\* mark_entities(T) returned, the marked text unmodified, returns exactly T.
C10_RoundTrip ==
    (epOp.name = "restore_entities" /\ epOp.text = epMarked) => epRet = epText

\* C10 as amended: restore_entities applied to the unmodified marked text and
\* mapping that mark_entities(T) returned gives the marked text with every
\* issued token replaced by the target form of its entity (first letter
\* upper-cased when the replaced occurrence began with an upper-case letter);
\* for a T that holds no placeholder token this is T with every occurrence
\* mark_entities replaced put in its target form; it is exactly T when
\* mark_entities replaced nothing.
C10_RestoresTargetForms ==
    (epOp.name = "restore_entities" /\ epOp.text = epMarked) =>
        /\ Substituted(epMarked, 1, epText, 1, epRet, 1, epMapping, ~HasToken(epText))
        /\ epMapping = <<>> => epRet = epText

\* C10 witness: a marked occurrence came back in its target form, not as it
\* stood in T.
C10_Witness ==
    /\ epOp.name = "restore_entities"
    /\ epOp.text = epMarked
    /\ epMapping # <<>>
    /\ ~HasToken(epText)
    /\ epRet # epText

\* whether the text holds the placeholder of a mapping entry
Occurs(text, info) == \E pos \in 1..Len(text) : HoldsAt(text, pos, info.placeholder)

\* C11: for every mapping entry, restore_entities puts in the place of the
\* placeholder the target form with its first character upper-cased if the
\* matched surface form began with an upper-case character (a one-character
\* target wholly upper-cased), and the target form exactly as the glossary
\* stores it if the surface form began with a lower-case character.
C11_CapitalisationOnRestore ==
    epOp.name = "restore_entities" =>
        Substituted(epOp.text, 1, <<>>, 1, epRet, 1, epMapping, FALSE)

\* C11 witness: a restore of a text that holds the placeholder of an entry
\* whose surface form began upper-case and of one whose surface form began
\* lower-case, the target stored in lower case.
C11_Witness ==
    /\ epOp.name = "restore_entities"
    /\ \E m \in 1..Len(epMapping) :
          /\ Occurs(epOp.text, epMapping[m])
          /\ epMapping[m].original[1] \in UpperCase
          /\ epMapping[m].target[1] \notin UpperCase
    /\ \E m \in 1..Len(epMapping) :
          /\ Occurs(epOp.text, epMapping[m])
          /\ epMapping[m].original[1] \notin UpperCase

\* the entries of the mapping whose placeholder the restored text held
PresentEntries ==
    LET present(info) == Occurs(epOp.text, info)
    IN  SelectSeq(epMapping, present)

\* C12: when a placeholder of the mapping does not occur in the text given to
\* restore_entities, the call still returns a text: the one it returns for
\* the mapping without the missing entries, that is, every placeholder that
\* does occur is replaced by its target form, nothing is put in for a missing
\* one, and the text outside the placeholder tokens is unchanged.
C12_DroppedPlaceholders ==
    (/\ epOp.name = "restore_entities"
     /\ \E m \in 1..Len(epMapping) : ~Occurs(epOp.text, epMapping[m]))
        => /\ epRet # None
           /\ Substituted(epOp.text, 1, <<>>, 1, epRet, 1, PresentEntries, FALSE)
           /\ \A m \in 1..Len(epMapping) : ~Occurs(epRet, epMapping[m])

\* C12 witness: the first placeholder was dropped from the text and a later
\* one was still restored.
C12_Witness ==
    /\ epOp.name = "restore_entities"
    /\ Len(epMapping) >= 2
    /\ ~Occurs(epOp.text, epMapping[1])
    /\ Occurs(epOp.text, epMapping[2])
    /\ epRet # epOp.text

(***************************************************************************)
(* Claims about the glossary.                                              *)
(***************************************************************************)
\* One term applied to a text whose characters each carry the length of the
\* source of the term that produced them (0 for a character of the text
\* itself): the term matches only where no character was produced by a term
\* with a longer source.  items is a sequence of <<character, length>>.
RECURSIVE ProtectedSub(_, _, _, _)
ProtectedSub(items, pos, source, target) ==
    IF pos > Len(items) THEN <<>>
    ELSE IF /\ pos + Len(source) - 1 <= Len(items)
            /\ \A n \in 1..Len(source) :
                  /\ LowerChar(items[pos + n - 1][1]) = LowerChar(source[n])
                  /\ items[pos + n - 1][2] <= Len(source)
    THEN [n \in 1..Len(target) |-> <<target[n], Len(source)>>]
             \o ProtectedSub(items, pos + Len(source), source, target)
    ELSE <<items[pos]>> \o ProtectedSub(items, pos + 1, source, target)

RECURSIVE ProtectedLoop(_, _, _)
ProtectedLoop(sorted_items, i, items) ==
    IF i > Len(sorted_items) THEN items
    ELSE ProtectedLoop(sorted_items, i + 1,
                       ProtectedSub(items, 1, sorted_items[i].source, sorted_items[i].target))

\* the terms applied longest source first, what a longer term put in never
\* being rewritten by a shorter one
ProtectedApply(g, text) ==
    LET items == ProtectedLoop(SortedItems(g), 1, [n \in 1..Len(text) |-> <<text[n], 0>>])
    IN  [n \in 1..Len(items) |-> items[n][1]]

\* C13: apply processes the terms longest source first, and the text a longer
\* term put in is never rewritten, in part or whole, by a shorter term: the
\* result holds each longer term's target intact wherever its source occurred.
C13_LongestMatch ==
    glOp.name = "apply" => glRet = ProtectedApply(glossary, glOp.text)

(***************************************************************************)
(* Claims about the translator.                                            *)
(***************************************************************************)

\* the step is a translate_text call
IsTranslateCall == nCalls' = nCalls + 1

\* the LLM post-editor is called unless the MT backend was called and raised
RanFullPipeline ==
    /\ use_cache => hits' + misses' = hits + misses + 1
    /\ trLog'.mt_calls # <<>> \/ (use_cache /\ hits' = hits + 1)
    /\ trLog'.llm_calls = <<>> => trRet' = Raised /\ trLog'.mt_calls # <<>>

\* C14: in a translate_text call with the TM enabled, when find_in_tm
\* classifies the text as exact or fuzzy the call returns the target of a
\* stored segment (the one find_in_tm found), calls neither the MT backend nor
\* the LLM post-editor and leaves the cache (entries, file, hits, misses) and
\* the TM (segments, file) as they were; when the class is suggest or none the
\* cache is read (when in use), the MT backend is called on a miss and the LLM
\* post-editor is called unless the MT backend raised.
C14_TMShortCircuit ==
    [][ (IsTranslateCall /\ use_tm) =>
          LET found == FindResult(RAPIDFUZZ_AVAILABLE, memory, trOp'.text)
          IN  IF found[3] \in {"exact", "fuzzy"}
              THEN /\ trRet' = found[1]
                   /\ \E i \in 1..Len(memory) : memory[i].target = trRet'
                   /\ trLog'.mt_calls = <<>>
                   /\ trLog'.llm_calls = <<>>
                   /\ UNCHANGED <<cache, cacheFile, hits, misses, memory, tmFile>>
              ELSE RanFullPipeline ]_vars

\* a call that found a fuzzy match in the TM while the cache held entries
C14_Witness ==
    /\ trOp.name = "translate_text"
    /\ use_tm
    /\ use_cache
    /\ trLog.match_type = "fuzzy"
    /\ trLog.short_circuit
    /\ cache # EmptyMap
    /\ trRet # None

\* C17: in a translate_text call with the TM enabled that does not
\* short-circuit, when the call returns a translation the TM has exactly one
\* more segment than before, (the text the call was given, the translation it
\* returned), after the segments it held; when the MT backend or the LLM
\* post-editor raises, the call raises and the TM and its file are as before.
C17_TMWriteOnSuccess ==
    [][ (IsTranslateCall /\ use_tm /\ ~trLog'.short_circuit) =>
          IF trRet' = Raised
          THEN UNCHANGED <<memory, tmFile>>
          ELSE /\ Len(memory') = Len(memory) + 1
               /\ SubSeq(memory', 1, Len(memory)) = memory
               /\ memory'[Len(memory')].source = trOp'.text
               /\ memory'[Len(memory')].target = trRet' ]_vars

(***************************************************************************)
(* Claims about translate_docx.                                            *)
(***************************************************************************)

\* the number of batches of the document
NumBatches == Cardinality(BatchStarts(paragraphs, batch_size))

\* out is, batch after batch of log, the entry or entries of that batch: the
\* failure marker of batch k alone when its translate_text raised, and
\* otherwise one entry or more that joined give the text it returned
RECURSIVE InBatchOrder(_, _)
InBatchOrder(out, log) ==
    IF log = <<>> THEN out = <<>>
    ELSE \E m \in 1..Len(out) :
            /\ IF Head(log).ret = Raised
               THEN SubSeq(out, 1, m) = <<error_marker(Head(log).batch_num)>>
               ELSE Join(SubSeq(out, 1, m)) = Head(log).ret
            /\ InBatchOrder(SubSeq(out, m + 1, Len(out)), Tail(log))

C15_Safety ==
    /\ \A k \in 1..Len(docLog) :
          /\ docLog[k].batch_num = k
          /\ docLog[k].batch = Batch(paragraphs, (k - 1) * batch_size, batch_size)
    /\ InBatchOrder(translated_paragraphs, docLog)
    /\ docPc = "done" =>
          /\ Len(docLog) = NumBatches
          /\ docOut = translated_paragraphs
          /\ Len(docOut) >= NumBatches

\* C15: in translate_docx the output holds, in batch order, for every batch
\* whose translate_text raised exactly one failure marker naming that batch
\* and for every other batch its translation; the batches after a failed one
\* are processed, the loop ends and write_docx is given that output, which
\* has at least as many entries as the document has batches.
C15_PartialFailureIsolation == []C15_Safety /\ (docPc = "loop" ~> docPc = "done")

\* a document of three batches is written, the second of which failed
C15_Witness ==
    /\ docPc = "done"
    /\ Len(docLog) = 3
    /\ docLog[1].ret # Raised
    /\ docLog[2].ret = Raised
    /\ docLog[3].ret # Raised
    /\ docOut[2] = error_marker(2)

\* the step is a turn of the loop whose translate_text returned
IsTranslatedBatch == Len(docLog') = Len(docLog) + 1 /\ trRet' # Raised

\* C16: a turn of the loop whose translate_text returned appends to the
\* output the parts of the returned text between double newlines, in order,
\* when they are as many as the paragraphs of the batch, and otherwise the
\* returned text whole as one entry.
C16_BatchAlignment ==
    [][ IsTranslatedBatch =>
          LET batch == docLog'[Len(docLog')].batch
              parts == Split(trRet')
          IN  translated_paragraphs' =
                 translated_paragraphs \o (IF Len(parts) = Len(batch) THEN parts ELSE <<trRet'>>) ]_vars

\* the batch of three paragraphs came back in two parts and is one entry
C16_Witness ==
    /\ Len(docLog) = 1
    /\ Len(docLog[1].batch) = 3
    /\ docLog[1].ret # Raised
    /\ Len(Split(docLog[1].ret)) = 2
    /\ translated_paragraphs = <<docLog[1].ret>>

(***************************************************************************)
(* Claims about the files of the stores.                                   *)
(***************************************************************************)

\* the sources of the segments of a translation memory
SourcesOf(m) == { m[i].source : i \in 1..Len(m) }

\* C18: with two processes on the same cache file and the same TM file and
\* no lock, a write leaves in the file the in-memory copy of its writer and
\* nothing else (the file is always the whole copy of one of the two), and
\* there is an interleaving of their loads and set/add calls after which the
\* file lacks an entry that one of them wrote.
C18_WholeFileRewrite ==
    /\ cacheFile = NoFile \/ cacheFile = JsonFile(cache) \/ cacheFile = JsonFile(cache2)
    /\ tmFile = TMJsonFile(memory) \/ tmFile = TMJsonFile(memory2)

\* the first process has set an entry and added a segment that the files
\* do not hold, and the files hold an entry and a segment of the second
\* process that the first never had
C18_LostUpdate ==
    /\ cacheFile.kind = "json"
    /\ \E a \in DOMAIN lastSet : KeyOf(a) \notin DOMAIN cacheFile.cache
    /\ \E k \in DOMAIN cacheFile.cache : k \in DOMAIN cache2 /\ k \notin DOMAIN cache
    /\ tmOp.name = "add"
    /\ Len(memory) = Len(tmPrev) + 1
    /\ memory[Len(memory)].source \notin SourcesOf(tmFile.segments)
    /\ \E x \in SourcesOf(tmFile.segments) : x \in SourcesOf(memory2) /\ x \notin SourcesOf(memory)

\* C19: when the write of the cache file or of the TM file fails, set and add
\* return normally, and the entry stays in the in-memory store: a following
\* get with the arguments of the set returns its translation, and a following
\* find_in_tm with the source of the add returns its target as a match.
C19_NonFatalPersistence ==
    /\ (cacheOp.name = "set" /\ cacheFile # JsonFile(cache)) => cacheRet = None
    /\ (cacheOp.name = "get" /\ cacheFile # JsonFile(cache) /\ cacheOp.args \in DOMAIN lastSet)
           => cacheRet = lastSet[cacheOp.args]
    /\ (tmOp.name = "add" /\ tmFile # TMJsonFile(memory)) => tmRet = None
    /\ (tmOp.name = "find_in_tm" /\ tmFile # TMJsonFile(memory))
           => \A i \in 1..Len(memory) :
                 memory[i].source = tmOp.source
                    => tmRet[1] = memory[i].target /\ tmRet[3] = "exact"

\* C20: constructing MTCache or TranslationMemory on a file that cannot be
\* parsed does not raise, leaves the store empty and the file as it was; a
\* get that follows misses and a find_in_tm that follows returns none.
C20_MalformedFallsBackToEmpty ==
    [][ /\ (cacheFile.kind = "broken" /\ cacheOp.name # "restart" /\ cacheOp'.name = "restart")
              => cache' = EmptyMap /\ cacheFile' = cacheFile /\ cacheRet' = None
        /\ (cacheFile.kind = "broken" /\ cacheOp.name = "restart" /\ cacheOp'.name = "get")
              => cacheRet' = None
        /\ (tmFile.kind = "broken" /\ tmOp.name # "restart" /\ tmOp'.name = "restart")
              => memory' = <<>> /\ tmFile' = tmFile /\ tmRet' = None
        /\ (tmFile.kind = "broken" /\ tmOp.name = "restart" /\ tmOp'.name = "find_in_tm")
              => tmRet' = <<None, Zero, "none">> ]_vars

\* both stores were constructed on a file that cannot be parsed and have
\* answered a get and a find_in_tm since
C20_Witness ==
    /\ cacheFile.kind = "broken" /\ lastSet = EmptyMap /\ cache = EmptyMap
    /\ cacheOp.name = "get" /\ cacheRet = None
    /\ tmFile.kind = "broken" /\ memory = <<>>
    /\ tmOp.name = "find_in_tm" /\ tmRet = <<None, Zero, "none">>

(***************************************************************************)
(* Further claims about the entity placeholders.                           *)
(***************************************************************************)

\* the positions in the processing order of mark_entities of the entities
\* that synthesize the inflected form `form`
Synthesizers(form) ==
    { i \in 1..Len(entities) :
        Lower(form) \in { Lower(f) : f \in InflectedForms(SortedEntities(entities)[i].source) } }

\* C21: when two entities synthesize the same inflected form, mark_entities
\* attributes an occurrence of the form (source and target of its mapping
\* entry) to the one of them that is processed first in the longest-source-
\* first order, whatever the order of the entries in the glossary file.
C21_CollisionTieBreak ==
    epOp.name = "mark_entities" =>
        \A m \in 1..Len(epMapping) :
            \A i \in Synthesizers(epMapping[m].original) :
                (/\ Cardinality(Synthesizers(epMapping[m].original)) >= 2
                 /\ \A j \in Synthesizers(epMapping[m].original) : i <= j)
                    => /\ epMapping[m].source = SortedEntities(entities)[i].source
                       /\ epMapping[m].target = SortedEntities(entities)[i].target

\* the largest index for which the shape of the tokens is compared
MaxIdx == 12

\* whether string part occurs in string s
IsSubstring(part, s) == \E pos \in 1..Len(s) : HoldsAt(s, pos, part)

\* the number of places of text where a placeholder token begins
TokenCount(text) ==
    Cardinality({ pos \in 1..Len(text) :
                    \E idx \in 0..Len(text) : HoldsAt(text, pos, Placeholder(idx)) })

\* C22: within one mark_entities call the n-th replaced match gets the token
\* of index n-1: each index is greater than all issued before it in the call
\* and none is used twice; the mapping has exactly one entry per replaced
\* match; no token is a substring of another token; and every call numbers
\* from 0 again with a mapping of its own.
C22_PlaceholderUniqueness ==
    /\ epOp.name = "mark_entities" =>
          /\ \A m \in 1..Len(epMapping) : epMapping[m].placeholder = Placeholder(m - 1)
          /\ \A m, n \in 1..Len(epMapping) :
                m # n => /\ epMapping[m].placeholder # epMapping[n].placeholder
                         /\ ~IsSubstring(epMapping[m].placeholder, epMapping[n].placeholder)
          /\ Len(epMapping) = TokenCount(epMarked) - TokenCount(epText)
    /\ \A i, j \in 0..MaxIdx : i # j => ~IsSubstring(Placeholder(i), Placeholder(j))

\* C22 witness: a call replaced two matches, of two surface forms
C22_Witness ==
    /\ epOp.name = "mark_entities"
    /\ Len(epMapping) = 2
    /\ epMapping[1].original # epMapping[2].original
    /\ TokenCount(epMarked) = 2

\* the number of places of text where token begins
Occurrences(text, token) ==
    Cardinality({ pos \in 1..Len(text) : HoldsAt(text, pos, token) })

\* the marked text with the tokens of the mapping, from entry i on, replaced
\* by the substrings they stand for
RECURSIVE Unmark(_, _, _)
Unmark(marked, mapping, i) ==
    IF i > Len(mapping) THEN marked
    ELSE Unmark(Replace(marked, 1, mapping[i].placeholder, mapping[i].original), mapping, i + 1)

AskedThreshold ==
    IF tmOp.name = "find_in_tm" THEN 80
    ELSE IF tmOp.threshold = Omitted THEN 95 ELSE tmOp.threshold

\* C24: search and find_in_tm select a stored segment of maximum similarity to
\* the query, and of several segments that share the maximum the one inserted
\* earliest: what is returned is that segment's target with its similarity,
\* and it is returned whenever its similarity reaches the threshold.
C24_BestMatchTieBreak ==
    (tmOp.name \in {"search", "find_in_tm"} /\ memory # <<>>) =>
        /\ (tmRet # None /\ tmRet[3] # "none") =>
              /\ tmRet[1] = memory[BestSegment].target
              /\ SimEQ(tmRet[2], SimTo(BestSegment))
        /\ SimGE(SimTo(BestSegment), AskedThreshold) => (tmRet # None /\ tmRet[3] # "none")

\* C25: starting from the empty store, after any sequence of add, search,
\* find_in_tm, fuzzy_search and clear, no two stored segments have the same
\* source string.
C25_SourceUniqueness ==
    \A i, j \in 1..Len(memory) : memory[i].source = memory[j].source => i = j

\* C25 witness: an add of a stored source with another target has left a store
\* of two segments as it was
C25_Witness ==
    /\ tmOp.name = "add"
    /\ Len(memory) >= 2
    /\ memory = tmPrev
    /\ \E i \in 1..Len(memory) :
          /\ memory[i].source = Strip(tmOp.source)
          /\ memory[i].target # Strip(tmOp.target)

\* C26: no operation but clear removes or alters a stored segment (source,
\* target, metadata) or moves it: add appends one segment at the end or
\* changes nothing, and changes nothing when its source is already stored;
\* search, find_in_tm and fuzzy_search change nothing; clear leaves the store
\* empty.
C26_SegmentsKept ==
    [][ /\ tmOp'.name = "add" =>
              /\ \/ memory' = memory
                 \/ /\ Len(memory') = Len(memory) + 1
                    /\ SubSeq(memory', 1, Len(memory)) = memory
              /\ (\E i \in 1..Len(memory) : memory[i].source = Strip(tmOp'.source))
                    => memory' = memory
        /\ tmOp'.name \in {"search", "find_in_tm", "fuzzy_search"} => memory' = memory
        /\ tmOp'.name = "clear" => memory' = <<>> ]_vars

\* C26 witness: an add has appended a second segment behind the first, which
\* is as it was
C26_Witness ==
    /\ tmOp.name = "add"
    /\ Len(tmPrev) = 1
    /\ Len(memory) = 2
    /\ memory[1] = tmPrev[1]
    /\ memory[2].source = Strip(tmOp.source)

(***************************************************************************)
(* Further claims about the translator.                                    *)
(***************************************************************************)

\* the step is a translate_text call that went past the translation memory
IsPipelineCall == IsTranslateCall /\ ~trLog'.short_circuit

\* the key of the cache entry of the text the call gave to the MT stage
MTKey == KeyOf(MTArgs(trLog'.text_for_mt))

\* the lookup of the call hit
IsCacheHit == use_cache /\ MTKey \in DOMAIN cache

\* the MT backend was called and raised
MTRaised == trLog'.mt_calls # <<>> /\ trLog'.llm_calls = <<>> /\ trRet' = Raised

\* C27: a translate_text call that goes past the TM looks the cache up with
\* the placeholder-marked text (one get: a hit or a miss is counted for that
\* key); the MT backend is called if and only if the cache is not in use or
\* the lookup misses, and with the marked text; with the cache in use a
\* successful MT call is followed by exactly one set, of what the backend
\* returned under the key of the marked text, and nothing is set on a hit or
\* when the MT call raises.
C27_CacheProtocol ==
    [][ IsPipelineCall =>
          /\ \E marked \in MarkChoices(trOp'.text) : trLog'.text_for_mt = marked[1]
          /\ IF use_cache
             THEN IF IsCacheHit THEN hits' = hits + 1 /\ misses' = misses
                                ELSE hits' = hits /\ misses' = misses + 1
             ELSE UNCHANGED <<hits, misses, cache, cacheFile>>
          /\ trLog'.mt_calls = IF IsCacheHit THEN <<>> ELSE <<trLog'.text_for_mt>>
          /\ IF use_cache /\ ~IsCacheHit /\ ~MTRaised
             THEN /\ DOMAIN cache' = DOMAIN cache \cup {MTKey}
                  /\ \A k \in DOMAIN cache : cache'[k] = cache[k]
                  /\ cache'[MTKey].source_text = Preview(trLog'.text_for_mt)
                  /\ \E mt \in MTOutcomes \ {"raise"} :
                        cache'[MTKey].translation = MTTranslate(mt, trLog'.text_for_mt)
                  /\ cacheFile' = JsonFile(cache')
             ELSE UNCHANGED <<cache, cacheFile>> ]_vars

\* C27 witness: a call found in the cache what an earlier call had stored
\* under the marked text and did not call the MT backend
C27_Witness ==
    /\ trOp.name = "translate_text"
    /\ ~trLog.short_circuit
    /\ use_cache
    /\ use_placeholders
    /\ trLog.text_for_mt # trOp.text
    /\ trLog.mt_calls = <<>>
    /\ hits = 1
    /\ misses = 1
    /\ KeyOf(MTArgs(trLog.text_for_mt)) \in DOMAIN cache
    /\ KeyOf(MTArgs(trOp.text)) \notin DOMAIN cache

\* what the MT stage of the step handed on, the backend having done mt when
\* it was called: the cached translation on a hit, else what the backend
\* returned for the marked text
MTStage(mt) ==
    IF IsCacheHit THEN cache[MTKey].translation ELSE MTTranslate(mt, trLog'.text_for_mt)

\* the draft made of an MT output: entity restoration, then glossary pass 1
DraftOf(ug, entity_mapping, mt_output) ==
    IF ug THEN ApplyResult(glossary, RestoreResult(mt_output, entity_mapping))
    ELSE RestoreResult(mt_output, entity_mapping)

\* the translation made of a draft: LLM post-edit, then glossary pass 2
FinalOf(ug, llm, original_text, draft) ==
    IF ug THEN ApplyResult(glossary, LLMEdit(llm, original_text, draft))
    ELSE LLMEdit(llm, original_text, draft)

\* the rest of a call whose MT stage handed on mt_output for the marking
\* marked: the post-editor is called once, with the text as given and the
\* draft; when it raises the call raises and the TM is not written; else the
\* call returns the post-edit after glossary pass 2, which is what a segment
\* the call appends to the TM holds
AfterMTStage(ug, marked, mt_output) ==
    /\ trLog'.llm_calls = << [original_text |-> trOp'.text,
                              translated_text |-> DraftOf(ug, marked[2], mt_output)] >>
    /\ \/ trRet' = Raised /\ memory' = memory
       \/ /\ \E llm \in LLMOutcomes \ {"raise"} :
                trRet' = FinalOf(ug, llm, trOp'.text, DraftOf(ug, marked[2], mt_output))
          /\ \/ memory' = memory
             \/ /\ use_tm
                /\ memory' = Append(memory, [source |-> Strip(trOp'.text),
                                             target |-> Strip(trRet'),
                                             metadata |-> EmptyMap])

IsBatchTurn == Len(docLog') = Len(docLog) + 1

\* what a run of translate_docx has called so far: one translate_text per
\* turn of the loop, no batch twice, and in the last translate_text at most
\* one MT call and at most one post-edit call
C29_Calls ==
    /\ nCalls = Len(docLog)
    /\ \A j \in 1..Len(docLog), k \in 1..Len(docLog) :
          j < k => docLog[j].batch_num < docLog[k].batch_num
    /\ Len(trLog.mt_calls) <= 1
    /\ Len(trLog.llm_calls) <= 1
    /\ docPc = "done" => nCalls = NumBatches

\* a turn of the loop calls translate_text once and moves on to the next
\* batch, also when the call raised; a call in which the MT backend raised
\* called it once and the post-editor not at all
C29_Turn ==
    IsBatchTurn =>
       /\ nCalls' = nCalls + 1
       /\ docPos' = docPos + batch_size
       /\ \A k \in 1..Len(docLog) : docLog[k].batch_num < docLog'[Len(docLog')].batch_num
       /\ (trRet' = Raised /\ trLog'.llm_calls = <<>>) => Len(trLog'.mt_calls) = 1
       /\ (trRet' = Raised /\ trLog'.llm_calls # <<>>) => Len(trLog'.llm_calls) = 1

\* C29: within one translate_docx run translate_text is invoked exactly once
\* per batch, and within one translate_text call the MT backend is invoked
\* at most once and the LLM post-editor at most once; after a backend call
\* raised, neither that call nor that batch is attempted again in the run.
C29_NoRetry == []C29_Calls /\ [][C29_Turn]_vars

\* C29 witness: a document of two batches is written; the translate_text of
\* the first batch raised and the run made two calls in all
C29_Witness ==
    /\ docPc = "done"
    /\ Len(docLog) = 2
    /\ docLog[1].ret = Raised
    /\ docLog[2].ret # Raised
    /\ nCalls = 2

\* the batches a run has processed, joined end to end
RECURSIVE BatchesOf(_)
BatchesOf(log) == IF log = <<>> THEN <<>> ELSE Head(log).batch \o BatchesOf(Tail(log))

\* the paragraphs of a document that hold more than white space, in the
\* order of the document
NonEmptyOf(document) ==
    LET holds_text(p) == \E j \in 1..Len(p) : p[j] \notin WhiteSpace
    IN  SelectSeq(document, holds_text)

\* n / size rounded up
CeilDiv(n, size) == (n + size - 1) \div size

\* C30: translate_docx drops the empty paragraphs and splits the remaining
\* ordered paragraphs into consecutive batches of exactly batch_size
\* paragraphs, the last one possibly shorter and none empty; every non-empty
\* paragraph belongs to exactly one batch, the batches are processed in
\* document order, there are ceil(n / batch_size) of them, and the number of
\* output entries lies between the number of batches and n.
C30_BatchPartition ==
    /\ docPc # "idle" =>
          \E document \in TRDocuments :
             /\ Len(paragraphs) = Len(NonEmptyOf(document))
             /\ \A i \in 1..Len(paragraphs) : paragraphs[i] = Strip(NonEmptyOf(document)[i])
    /\ \A k \in 1..Len(docLog) :
          /\ docLog[k].batch # <<>>
          /\ Len(docLog[k].batch) <= batch_size
          /\ k < Len(docLog) => Len(docLog[k].batch) = batch_size
    /\ Len(BatchesOf(docLog)) <= Len(paragraphs)
    /\ BatchesOf(docLog) = SubSeq(paragraphs, 1, Len(BatchesOf(docLog)))
    /\ docPc = "done" =>
          /\ BatchesOf(docLog) = paragraphs
          /\ Len(docLog) = CeilDiv(Len(paragraphs), batch_size)
          /\ Len(docLog) <= Len(docOut)
          /\ Len(docOut) <= Len(paragraphs)

\* the blank paragraph of a document of three was dropped and
\* the two others, one batch each, are written as two entries
C30_BlankDropped ==
    /\ docPc = "done"
    /\ batch_size = 1
    /\ Len(paragraphs) = 2
    /\ \E document \in TRDocuments :
          Len(document) = 3 /\ Len(NonEmptyOf(document)) = 2
                            /\ paragraphs[2] = Strip(NonEmptyOf(document)[2])
    /\ Len(docLog) = 2
    /\ Len(docOut) = 2

\* C30 witness: a document of three paragraphs was cut into a batch of two
\* and a last batch of one, and written as two entries
C30_Witness ==
    /\ docPc = "done"
    /\ batch_size = 2
    /\ Len(paragraphs) = 3
    /\ Len(docLog) = 2
    /\ Len(docLog[1].batch) = 2
    /\ Len(docLog[2].batch) = 1
    /\ Len(docOut) = 2

(***************************************************************************)
(* Claims about TMEnhancedTranslator.                                      *)
(***************************************************************************)

\* the segments of the store whose similarity to the text is at least 0.98
NearSegments(text) ==
    { i \in 1..Len(memory) :
         SimGE(Similarity(RAPIDFUZZ_AVAILABLE, text, memory[i].source), EXACT_THRESHOLD) }

\* C31: translate_with_tm, when the TM holds a segment whose similarity to
\* the text is at least 0.98, returns that segment's stored translation
\* without a call of the wrapped translator and without adding to the TM;
\* otherwise it calls the wrapped translator once and, when that call
\* returned, returns its translation with (text, translation) in the TM.
C31_TranslateWithTM ==
    [][ tmOp'.name = "translate_with_tm" =>
          IF NearSegments(tmOp'.source) # {}
          THEN /\ \E i \in NearSegments(tmOp'.source) : tmRet' = memory[i].target
               /\ nCalls' = nCalls
               /\ memory' = memory
          ELSE /\ nCalls' = nCalls + 1
               /\ trRet' # Raised =>
                     /\ tmRet' = trRet'
                     /\ \E i \in 1..Len(memory') :
                           /\ memory'[i].source = Strip(tmOp'.source)
                           /\ memory'[i].target = Strip(trRet') ]_vars

(***************************************************************************)
(* Claims about successive translate_text calls.                           *)
(***************************************************************************)

\* the step is a translate_text call on the text of the call before it,
\* which ran the full pipeline with the TM in use and returned
IsRepeatAfterSuccess ==
    /\ IsTranslateCall
    /\ use_tm
    /\ trOp.name = "translate_text"
    /\ trOp'.text = trOp.text
    /\ ~trLog.short_circuit
    /\ trRet # Raised

\* C32: with the TM in use, a translate_text call that immediately follows a
\* call on the same text which returned a result through the full pipeline
\* makes no MT call and no LLM call and returns that result, up to
\* surrounding white space.
C32_ReuseAfterSuccess ==
    [][ IsRepeatAfterSuccess =>
          /\ trLog'.mt_calls = <<>>
          /\ trLog'.llm_calls = <<>>
          /\ Strip(trRet') = Strip(trRet) ]_vars

(***************************************************************************)
(* Further claims about the inflected forms.                               *)
(***************************************************************************)

\* C33: for an entity whose case_sensitive flag is true, an occurrence in the
\* text of one of its synthesized inflected forms written with the
\* capitalisation of the canonical name is replaced by a placeholder by
\* mark_entities: the mapping holds an entry whose surface form it is.
C33_InflectedNamesProtected ==
    epOp.name = "mark_entities" =>
       \A i \in 1..Len(entities) :
          entities[i].case_sensitive =>
             \A form \in InflectedForms(entities[i].source), pos \in 1..Len(epText) :
                MatchAt(epText, pos, form, TRUE) =>
                   \E k \in 1..Len(epMapping) : epMapping[k].original = form

(***************************************************************************)
(* Further claims about the glossary.                                      *)
(***************************************************************************)

\* C34: Glossary.apply is idempotent: applying the glossary to the text that
\* apply returned gives that text again.
C34_ApplyIdempotent ==
    glOp.name = "apply" => ApplyResult(glossary, glRet) = glRet

(***************************************************************************)
(* Claims about the cache across translate_text calls.                     *)
(***************************************************************************)

\* the step is a call with the cache in use whose MT stage ended well and
\* whose post-editor raised
IsLLMFailure == IsPipelineCall /\ use_cache /\ trRet' = Raised /\ trLog'.llm_calls # <<>>

\* the call before the step was on the same text, with the cache in use, and
\* its post-editor raised after its MT stage
IsRetryAfterLLMFailure ==
    /\ IsTranslateCall
    /\ use_cache
    /\ trOp.name = "translate_text"
    /\ trOp'.text = trOp.text
    /\ trRet = Raised
    /\ trLog.llm_calls # <<>>

\* C35: when in translate_text the MT stage succeeds with the cache in use
\* and the post-editor then raises, the MT result is in the cache and the TM
\* is unchanged; a translate_text call never removes or changes a cache
\* entry and never sets a key the cache holds; so the next translate_text of
\* the same text hits the cache, makes no MT call and calls the post-editor
\* once.
C35_DraftSurvivesFailure ==
    [][ /\ IsLLMFailure =>
             /\ MTKey \in DOMAIN cache'
             /\ UNCHANGED <<memory, tmFile>>
        /\ IsTranslateCall =>
             \A k \in DOMAIN cache : k \in DOMAIN cache' /\ cache'[k] = cache[k]
        /\ (IsPipelineCall /\ IsCacheHit) =>
             /\ trLog'.mt_calls = <<>>
             /\ UNCHANGED <<cache, cacheFile>>
        /\ IsRetryAfterLLMFailure =>
             /\ ~trLog'.short_circuit
             /\ trLog'.text_for_mt = trLog.text_for_mt
             /\ hits' = hits + 1
             /\ trLog'.mt_calls = <<>>
             /\ Len(trLog'.llm_calls) = 1 ]_vars

\* C35 witness: with TM and cache in use two calls were made and the TM is
\* still empty; the second hit the cache entry that the MT stage of the first
\* had set, called no MT backend and called the post-editor
C35_Witness ==
    /\ trOp.name = "translate_text"
    /\ use_tm
    /\ use_cache
    /\ nCalls = 2
    /\ memory = <<>>
    /\ hits = 1
    /\ misses = 1
    /\ trLog.mt_calls = <<>>
    /\ Len(trLog.llm_calls) = 1
    /\ KeyOf(MTArgs(trLog.text_for_mt)) \in DOMAIN cache

(***************************************************************************)
(* Claims about search and fuzzy_search together.                          *)
(***************************************************************************)

\* C36: find_in_tm returns a match if and only if fuzzy_search of the same
\* query with min_similarity 0.80 returns a non-empty list, and then its
\* target, similarity and class are those of the first element of that list.
C36_SearchAgreesWithFuzzy ==
    tmOp.name = "find_in_tm" =>
       LET matches == FuzzyResult(RAPIDFUZZ_AVAILABLE, memory, tmOp.source, SUGGEST_THRESHOLD)
       IN  /\ tmRet[1] # None <=> matches # <<>>
           /\ matches # <<>> => tmRet = <<matches[1][2], matches[1][3], matches[1][4]>>

(***************************************************************************)
(* Claims about the end of translate_docx.                                 *)
(***************************************************************************)

\* write_docx is called after the last turn of the loop and not before, with
\* the output the loop accumulated
C37_WriteAfterLoop ==
    docOut' # docOut =>
       /\ docPc = "loop"
       /\ docPos >= Len(paragraphs)
       /\ Len(docLog) = NumBatches
       /\ docOut' = translated_paragraphs
       /\ docPc' = "done"

\* once write_docx was called the run makes no turn and no second write
C37_WriteOnce == docPc = "done" => UNCHANGED <<docPc, docOut, docLog, translated_paragraphs>>

\* C37: translate_docx terminates: whatever the backends return or raise in
\* each batch, no exception leaves the run (it is before its loop, in it or
\* done), the loop ends after the last batch and write_docx is called
\* exactly once, with the accumulated output, also when every batch failed.
C37_Terminates ==
    /\ [][C37_WriteAfterLoop /\ C37_WriteOnce]_vars
    /\ [](docPc \in {"idle", "loop", "done"})
    /\ [](docPc # "done" => docOut = None)
    /\ docPc = "loop" ~> (docPc = "done" /\ docOut = translated_paragraphs
                                         /\ Len(docLog) = NumBatches)

\* C37 witness: every one of the three batches of a document failed and the
\* three markers were written
C37_Witness ==
    /\ docPc = "done"
    /\ Len(docLog) = 3
    /\ \A k \in 1..3 : docLog[k].ret = Raised
    /\ docOut = <<error_marker(1), error_marker(2), error_marker(3)>>

====
